---- MODULE Spec2Model ----
(***************************************************************************)
(* Model of the AIGC core: the audit hash chain (core/src/audit), the      *)
(* export gate (core/src/policy/export_gate.rs), the run state machine     *)
(* with its export pipeline (core/src/run/manager.rs), the vault           *)
(* (core/src/storage/vault.rs) and the egress client                       *)
(* (core/src/policy/egress.rs, allowlist.rs).                              *)
(*                                                                         *)
(* JSON values (serde_json::Value) are tagged records: JStr, JInt, JFloat, *)
(* JArr; a JSON object is a TLA+ record, whose fields are unordered, which *)
(* is the key-sorted form the canonical encoder produces.                  *)
(* A hash string is either a literal string [hex |-> s] or the SHA-256     *)
(* digest of known bytes, [sha256_of |-> bytes]; SHA-256 is taken to be    *)
(* collision free.                                                         *)
(***************************************************************************)
EXTENDS Integers, Sequences, FiniteSets, TLC

(***************************************************************************)
(* Bounds of the model.                                                    *)
(***************************************************************************)
\* Lines the audit log file may hold in the specification of the AuditLog alone.
MaxLines == 3
\* Calls of export_run on one RunManager.
MaxCalls == 2
\* Traits a bundle input may have at once.
MaxTraits == 1

(***************************************************************************)
(* JSON values.                                                            *)
(***************************************************************************)
JStr(s) == [s |-> s]
JInt(n) == [int |-> n]
JFloat(f) == [float |-> f]
JArr(seq) == [arr |-> seq]
EmptyObject == [k \in {} |-> JStr("")]

\* The values the model stores under the keys of `details`: scalars and arrays of scalars.
IsNonIntegerNumber(v) == "float" \in DOMAIN v

(***************************************************************************)
(* determinism/json_canonical.rs                                           *)
(***************************************************************************)
\* normalize_value on one value stored under a key of an object: Err on a float,
\* also inside an array.
normalize_value_rejects(v) ==
    \/ IsNonIntegerNumber(v)
    \/ /\ "arr" \in DOMAIN v
       /\ \E i \in 1..Len(v.arr) : IsNonIntegerNumber(v.arr[i])

\* to_canonical_bytes of an audit event: the object with its keys in sorted
\* order, or DeterminismViolationError when a number in details is not an integer.
to_canonical_bytes(event) ==
    IF \E k \in DOMAIN event.details : normalize_value_rejects(event.details[k])
    THEN [ok |-> FALSE, err |-> "DeterminismViolationError"]
    ELSE [ok |-> TRUE, bytes |-> event]

(***************************************************************************)
(* audit/event.rs                                                          *)
(***************************************************************************)
ZERO_HASH_64 == [hex |-> "0000000000000000000000000000000000000000000000000000000000000000"]
\* String::new()
EmptyString == [hex |-> ""]
Sha256Hex(bytes) == [sha256_of |-> bytes]

\* len() == 64 and every character an ASCII hex digit.  A digest always is; of the
\* literal strings of the model only the 64 zeros are.
IsHex64(h) == IF "hex" \in DOMAIN h THEN h = ZERO_HASH_64 ELSE TRUE

AllowedEventTypes ==
    { "RUN_CREATED", "RUN_STATE_CHANGED", "POLICY_APPLIED", "NETWORK_MODE_SET",
      "ALLOWLIST_UPDATED", "ARTIFACT_INGEST_STARTED", "ARTIFACT_INGESTED",
      "ARTIFACT_INGEST_COMPLETED", "EVAL_STARTED", "EVAL_GATE_RESULT",
      "EVAL_COMPLETED", "EXPORT_REQUESTED", "EXPORT_BLOCKED", "EXPORT_COMPLETED",
      "RUN_COMPLETED", "RUN_FAILED", "RUN_CANCELLED", "EGRESS_REQUEST_ALLOWED",
      "EGRESS_REQUEST_BLOCKED", "MODEL_SELECTION_RESOLVED", "MODEL_CALL_STARTED",
      "MODEL_CALL_COMPLETED", "MODEL_CALL_FAILED", "NO_AI_MODE_USED",
      "REDACTION_APPLIED", "REDACTION_VALIDATION_RESULT",
      "CITATION_VALIDATION_RESULT", "DETERMINISM_PROFILE_SET",
      "DETERMINISM_DOWNGRADED", "DETERMINISM_VALIDATION_RESULT",
      "BUNDLE_GENERATION_STARTED", "BUNDLE_GENERATION_COMPLETED",
      "BUNDLE_VALIDATION_STARTED", "BUNDLE_VALIDATION_RESULT",
      "VAULT_ENCRYPTION_STATUS", "VAULT_KEY_ROTATED", "DELETION_REQUESTED",
      "DELETION_COMPLETED", "EXPORT_FAILED" }

required_detail_keys(event_type) ==
    CASE event_type = "RUN_CREATED" ->
            {"pack_id", "pack_version", "policy_pack_id", "policy_pack_version",
             "determinism_enabled"}
      [] event_type = "RUN_STATE_CHANGED" -> {"from_state", "to_state", "reason"}
      [] event_type = "POLICY_APPLIED" ->
            {"policy_mode", "rules_enabled", "export_requirements"}
      [] event_type = "NETWORK_MODE_SET" ->
            {"network_mode", "proof_level", "ui_remote_fetch_disabled"}
      [] event_type = "ALLOWLIST_UPDATED" -> {"allowlist_hash_sha256", "allowlist_count"}
      [] event_type = "ARTIFACT_INGEST_STARTED" -> {"source_type", "source_ref"}
      [] event_type = "ARTIFACT_INGESTED" ->
            {"artifact_id", "artifact_sha256", "content_type", "size_bytes",
             "origin_path", "ingest_transformations"}
      [] event_type = "ARTIFACT_INGEST_COMPLETED" -> {"artifact_count"}
      [] event_type = "MODEL_SELECTION_RESOLVED" ->
            {"task_type", "selected_model_id", "pinning_level", "adapter_id",
             "adapter_endpoint"}
      [] event_type = "MODEL_CALL_STARTED" ->
            {"call_id", "task_type", "input_artifact_refs", "request_hash_sha256",
             "timeout_ms"}
      [] event_type = "MODEL_CALL_COMPLETED" ->
            {"call_id", "response_hash_sha256", "duration_ms"}
      [] event_type = "MODEL_CALL_FAILED" ->
            {"call_id", "error_category", "error_code", "error_message_redacted"}
      [] event_type = "NO_AI_MODE_USED" -> {"reason", "affected_tasks"}
      [] event_type = "EGRESS_REQUEST_ALLOWED" ->
            {"destination", "allowlist_rule_id", "request_hash_sha256"}
      [] event_type = "EGRESS_REQUEST_BLOCKED" ->
            {"destination", "block_reason", "request_hash_sha256"}
      [] event_type = "REDACTION_APPLIED" ->
            {"artifact_id", "redaction_type", "region", "reason", "policy_rule_id"}
      [] event_type = "REDACTION_VALIDATION_RESULT" ->
            {"result", "missing_required_redactions"}
      [] event_type = "CITATION_VALIDATION_RESULT" ->
            {"result", "claims_total", "claims_missing_citations",
             "locator_schema_version"}
      [] event_type = "EVAL_STARTED" -> {"registry_version"}
      [] event_type = "EVAL_GATE_RESULT" ->
            {"gate_id", "result", "severity", "evidence_pointers", "message"}
      [] event_type = "EVAL_COMPLETED" ->
            {"gates_executed", "gates_failed_blocker", "gates_failed_total"}
      [] event_type = "EXPORT_REQUESTED" ->
            {"requested_by", "export_targets", "policy_mode"}
      [] event_type = "EXPORT_BLOCKED" -> {"block_reason", "failed_gate_ids"}
      [] event_type = "EXPORT_COMPLETED" ->
            {"bundle_path", "bundle_sha256", "bundle_version", "validator_result"}
      [] event_type = "BUNDLE_VALIDATION_RESULT" ->
            {"result", "failed_checks", "validator_version"}
      [] event_type = "VAULT_ENCRYPTION_STATUS" ->
            {"encryption_at_rest", "algorithm", "key_storage"}
      [] event_type = "VAULT_KEY_ROTATED" -> {"old_key_id", "new_key_id"}
      [] event_type = "DELETION_REQUESTED" -> {"artifact_ids", "requested_by"}
      [] event_type = "DELETION_COMPLETED" ->
            {"artifact_ids_deleted", "blob_delete_method",
             "sqlite_compaction_attempted", "result"}
      [] OTHER -> {}

\* validate_event_taxonomy with the check of the required keys left out.
validate_event_taxonomy_no_keys(event) ==
    IF event.event_type \notin AllowedEventTypes
    THEN [ok |-> FALSE, err |-> "InvalidInput"]
    ELSE [ok |-> TRUE, err |-> "none"]

validate_event_taxonomy(event) ==
    IF event.event_type \notin AllowedEventTypes
    THEN [ok |-> FALSE, err |-> "InvalidInput"]
    ELSE IF \E k \in required_detail_keys(event.event_type) : k \notin DOMAIN event.details
    THEN [ok |-> FALSE, err |-> "InvalidInput"]
    ELSE [ok |-> TRUE, err |-> "none"]

compute_event_hash(event) ==
    LET hashed(c) == IF c.ok THEN [ok |-> TRUE, hash |-> Sha256Hex(c.bytes)]
                     ELSE [ok |-> FALSE, err |-> c.err]
    IN  hashed(to_canonical_bytes([event EXCEPT !.event_hash = ZERO_HASH_64]))

finalize_event(event) ==
    IF ~IsHex64(event.prev_event_hash)
    THEN [ok |-> FALSE, err |-> "InvalidInput"]
    ELSE IF ~validate_event_taxonomy(event).ok
    THEN [ok |-> FALSE, err |-> validate_event_taxonomy(event).err]
    ELSE LET stamped(eh) ==
                 IF ~eh.ok THEN [ok |-> FALSE, err |-> eh.err]
                 ELSE [ok |-> TRUE, event |-> [event EXCEPT !.event_hash = eh.hash]]
         IN  stamped(compute_event_hash(event))

\* The AuditEvent literal the callers build: both hash fields are String::new().
AuditEvent(event_type, run_id, actor, details) ==
    [ ts_utc |-> "now", event_type |-> event_type, run_id |-> run_id,
      vault_id |-> "v1", actor |-> actor, details |-> details,
      prev_event_hash |-> EmptyString, event_hash |-> EmptyString ]

(***************************************************************************)
(* audit/log.rs                                                            *)
(***************************************************************************)
\* The loop of open_or_create taken as keeping the first line's hash.
recover_last_hash_first(file_lines) ==
    IF Len(file_lines) = 0 THEN ZERO_HASH_64 ELSE file_lines[1].event_hash

\* The loop of open_or_create over the lines of an existing file.
recover_last_hash(file_lines) ==
    IF Len(file_lines) = 0 THEN ZERO_HASH_64
    ELSE file_lines[Len(file_lines)].event_hash

\* append, line 48: event.prev_event_hash = self.last_hash.clone()
stamp_prev_hash(event, handle_last_hash) ==
    [event EXCEPT !.prev_event_hash = handle_last_hash]

\* AuditLog::append on a log [lines, last_hash]: the finalized event and the new
\* log, or the error and the log as it was.
append(log, event) ==
    LET written(r) ==
            IF ~r.ok THEN [ok |-> FALSE, err |-> r.err, log |-> log]
            ELSE [ok |-> TRUE, err |-> "none", event |-> r.event,
                  log |-> [lines |-> Append(log.lines, r.event),
                           last_hash |-> r.event.event_hash]]
    IN  written(finalize_event(stamp_prev_hash(event, log.last_hash)))

(***************************************************************************)
(* State.                                                                  *)
(***************************************************************************)
VARIABLES
    fileExists,  \* the audit log path exists
    lines,       \* the lines of the audit log file, one event each
    audit,       \* the AuditLog handle: open, last_hash, and how it was opened
    state,       \* RunManager.state
    fs,          \* the preflight and export paths on disk
    calls,       \* export_run calls made on the RunManager
    managers,    \* RunManager values created on the log so far
    ret,         \* what the last operation was given and what it returned
    runs,        \* the export_run executions in progress side by side
    vault        \* a vault directory on disk and the VaultStorage handle on it

vars == <<fileExists, lines, audit, state, fs, calls, managers, ret, runs, vault>>

\* No export_run is in progress side by side with another; no vault is in use.
NoRuns == << >>
NoVault == [created |-> FALSE]

NoHandle == [open |-> FALSE, last_hash |-> ZERO_HASH_64, from_existing |-> FALSE]

\* A line written by another program: its event_hash is not 64 hex characters.
ForeignLine ==
    [ ts_utc |-> "now", event_type |-> "RUN_CREATED", run_id |-> "r0",
      vault_id |-> "v1", actor |-> "system", details |-> EmptyObject,
      prev_event_hash |-> ZERO_HASH_64, event_hash |-> [hex |-> "not-a-digest"] ]

\* The events the callers of AuditLog::append pass in this model.
AppendInputs ==
    { AuditEvent("RUN_STATE_CHANGED", "r1", "system",
                 [from_state |-> JStr("READY"), to_state |-> JStr("EVALUATING"),
                  reason |-> JStr("export requested")]),
      AuditEvent("RUN_STATE_CHANGED", "r1", "system",
                 [from_state |-> JStr("READY"), to_state |-> JStr("EVALUATING")]),
      AuditEvent("NOT_IN_TAXONOMY", "r1", "system", [reason |-> JStr("x")]),
      AuditEvent("EXPORT_FAILED", "r1", "system",
                 [reason |-> JStr("BUNDLE_VALIDATION_FAILED")]),
      AuditEvent("BUNDLE_GENERATION_STARTED", "r1", "system", EmptyObject),
      AuditEvent("ALLOWLIST_UPDATED", "r1", "user",
                 [allowlist_hash_sha256 |-> JStr("abc"), allowlist_count |-> JInt(0)]),
      AuditEvent("ALLOWLIST_UPDATED", "r1", "user",
                 [allowlist_hash_sha256 |-> JStr("abc"), allowlist_count |-> JFloat("0.5")]),
      [ AuditEvent("EXPORT_FAILED", "r1", "system", EmptyObject)
          EXCEPT !.prev_event_hash = ZERO_HASH_64 ] }

(***************************************************************************)
(* The AuditLog alone: open_or_create, append, and dropping the handle.    *)
(***************************************************************************)
AuditLog_open_or_create ==
    /\ ~audit.open
    /\ IF ~fileExists
       THEN /\ fileExists' = TRUE
            /\ lines' = << >>
            /\ audit' = [open |-> TRUE, last_hash |-> ZERO_HASH_64,
                         from_existing |-> FALSE]
       ELSE /\ UNCHANGED <<fileExists, lines>>
            /\ audit' = [open |-> TRUE, last_hash |-> recover_last_hash(lines),
                         from_existing |-> TRUE]
    /\ ret' = [op |-> "open_or_create", ok |-> TRUE]
    /\ UNCHANGED <<state, fs, calls, managers, runs, vault>>

AuditLog_append ==
    /\ audit.open
    /\ Len(lines) < MaxLines
    /\ \E event \in AppendInputs :
          LET r == append([lines |-> lines, last_hash |-> audit.last_hash], event)
          IN  /\ lines' = r.log.lines
              /\ audit' = [audit EXCEPT !.last_hash = r.log.last_hash]
              /\ ret' = [op |-> "append", ok |-> r.ok, err |-> r.err,
                         given |-> event, last_hash_before |-> audit.last_hash]
    /\ UNCHANGED <<fileExists, state, fs, calls, managers, runs, vault>>

AuditLog_drop ==
    /\ audit.open
    /\ audit' = NoHandle
    /\ ret' = [op |-> "drop", ok |-> TRUE]
    /\ UNCHANGED <<fileExists, lines, state, fs, calls, managers, runs, vault>>

NoPaths == [p \in {"preflight_root", "preflight_zip", "bundle_dir", "bundle_zip"}
              |-> [kind |-> "absent"]]

InitAudit ==
    /\ fileExists = FALSE
    /\ lines = << >>
    /\ audit = NoHandle
    /\ state = "READY"
    /\ fs = NoPaths
    /\ calls = 0
    /\ managers = 0
    /\ ret = [op |-> "none", ok |-> TRUE]
    /\ runs = NoRuns
    /\ vault = NoVault

NextAudit == AuditLog_open_or_create \/ AuditLog_append \/ AuditLog_drop

\* A single writer on a path that starts absent.
SpecAudit == InitAudit /\ [][NextAudit]_vars

\* The path may also hold a file that another program wrote.
InitAuditAnyFile ==
    /\ \/ fileExists = FALSE /\ lines = << >>
       \/ fileExists = TRUE /\ lines = << ForeignLine >>
    /\ audit = NoHandle
    /\ state = "READY"
    /\ fs = NoPaths
    /\ calls = 0
    /\ managers = 0
    /\ ret = [op |-> "none", ok |-> TRUE]
    /\ runs = NoRuns
    /\ vault = NoVault

SpecAuditAnyFile == InitAuditAnyFile /\ [][NextAudit]_vars

(***************************************************************************)
(* C2  After any sequence of open_or_create, accepted and rejected appends *)
(* and reopening by a single writer, every prefix of the file is a hash    *)
(* chain: line 1 has prev_event_hash = 64 zeros, every later line has the  *)
(* event_hash of the line before it as prev_event_hash, and each           *)
(* event_hash is the SHA-256 of the canonical bytes of the line with       *)
(* event_hash forced to 64 zeros.                                          *)
(***************************************************************************)
ChainHolds(seq) ==
    \A i \in 1..Len(seq) :
        /\ seq[i].prev_event_hash =
              (IF i = 1 THEN ZERO_HASH_64 ELSE seq[i - 1].event_hash)
        /\ seq[i].event_hash = [sha256_of |-> [seq[i] EXCEPT !.event_hash = ZERO_HASH_64]]
        /\ \A k \in DOMAIN seq[i].details : "float" \notin DOMAIN seq[i].details[k]

C2_HashChainEveryPrefix ==
    \A n \in 0..Len(lines) : ChainHolds(SubSeq(lines, 1, n))

\* A third line appended through a handle that recovered last_hash from the file.
C2_Witness ==
    /\ audit.open /\ audit.from_existing
    /\ ret.op = "append" /\ ret.ok
    /\ Len(lines) >= 3

(***************************************************************************)
(* C10  append rejects every event whose type is outside the taxonomy,     *)
(* whose details lack a required key, or whose prev_event_hash (the        *)
(* handle's last_hash, which append stamps on the event) is malformed; a   *)
(* rejected append leaves the file and last_hash as they were, and an      *)
(* accepted event is chained to last_hash and becomes the last line.       *)
(***************************************************************************)
C10_MustReject(event, last_hash) ==
    \/ event.event_type \notin AllowedEventTypes
    \/ \E k \in required_detail_keys(event.event_type) : k \notin DOMAIN event.details
    \/ ~IsHex64(last_hash)

C10_RejectedAppendWritesNothing ==
    [][ ret'.op = "append" /\ audit.open =>
          /\ C10_MustReject(ret'.given, audit.last_hash) => ~ret'.ok
          /\ ~ret'.ok => /\ ret'.err # "none"
                         /\ lines' = lines
                         /\ audit'.last_hash = audit.last_hash
          /\ ret'.ok => /\ Len(lines') = Len(lines) + 1
                        /\ SubSeq(lines', 1, Len(lines)) = lines
                        /\ lines'[Len(lines')].prev_event_hash = audit.last_hash
                        /\ audit'.last_hash = lines'[Len(lines')].event_hash
      ]_vars

\* An event was accepted right after a rejected one, on a file with a line before.
C10_Witness ==
    /\ ret.op = "append" /\ ~ret.ok
    /\ ret.given.event_type = "RUN_STATE_CHANGED"
    /\ Len(lines) >= 1
    /\ audit.last_hash = lines[Len(lines)].event_hash

\* A handle whose last_hash is malformed rejected a well-formed event.
C10_WitnessMalformedPrev ==
    /\ ret.op = "append" /\ ~ret.ok
    /\ ~IsHex64(ret.last_hash_before)
    /\ ret.given.event_type = "EXPORT_FAILED"

(***************************************************************************)
(* policy/types.rs, adapters/pinning.rs, policy/export_gate.rs             *)
(***************************************************************************)
PolicyMode == {"STRICT", "BALANCED", "DRAFT_ONLY"}
NetworkMode == {"OFFLINE", "ONLINE_ALLOWLISTED"}
ProofLevel == {"OFFLINE_STRICT", "ONLINE_ALLOWLIST_CORE_ONLY",
               "ONLINE_ALLOWLIST_WITH_OS_FIREWALL_PROFILE"}
PinningLevel == {"CRYPTO_PINNED", "VERSION_PINNED", "NAME_ONLY"}

\* pin_ok with the pinning rule on BALANCED and DRAFT_ONLY, and STRICT exempt.
pin_ok_strict_exempt(i) ==
    IF i.policy_mode \in {"BALANCED", "DRAFT_ONLY"}
    THEN i.pinning_level = "CRYPTO_PINNED" \/ i.pinning_level = "VERSION_PINNED"
    ELSE TRUE

\* The match on policy_mode that yields pin_ok.
pin_ok(i) ==
    IF i.policy_mode \in {"STRICT", "BALANCED"}
    THEN i.pinning_level = "CRYPTO_PINNED" \/ i.pinning_level = "VERSION_PINNED"
    ELSE TRUE

\* evaluate_export_gate with the redaction rule tested before the citation rule.
evaluate_export_gate_redactions_first(i) ==
    IF Len(i.blocker_gate_failures) # 0 THEN "EVAL_FAILED"
    ELSE IF ~i.determinism_passed THEN "DETERMINISM_FAILED"
    ELSE IF ~pin_ok(i) THEN "INSUFFICIENT_PINNING"
    ELSE IF /\ (i.policy_mode = "STRICT" \/ i.policy_mode = "BALANCED")
            /\ ~i.redactions_required_passed
         THEN "MISSING_REDACTIONS"
    ELSE IF i.policy_mode = "STRICT" /\ ~i.citations_required_passed
         THEN "MISSING_CITATIONS"
    ELSE IF /\ i.policy_mode = "STRICT"
            /\ (i.network_mode # "OFFLINE" \/ i.proof_level # "OFFLINE_STRICT")
         THEN "OFFLINE_PROOF_INSUFFICIENT"
    ELSE "Ok"

\* evaluate_export_gate: "Ok" for Ok(()), the block reason for Err(reason).
evaluate_export_gate(i) ==
    IF Len(i.blocker_gate_failures) # 0 THEN "EVAL_FAILED"
    ELSE IF ~i.determinism_passed THEN "DETERMINISM_FAILED"
    ELSE IF ~pin_ok(i) THEN "INSUFFICIENT_PINNING"
    ELSE IF i.policy_mode = "STRICT" /\ ~i.citations_required_passed
         THEN "MISSING_CITATIONS"
    ELSE IF /\ (i.policy_mode = "STRICT" \/ i.policy_mode = "BALANCED")
            /\ ~i.redactions_required_passed
         THEN "MISSING_REDACTIONS"
    ELSE IF /\ i.policy_mode = "STRICT"
            /\ (i.network_mode # "OFFLINE" \/ i.proof_level # "OFFLINE_STRICT")
         THEN "OFFLINE_PROOF_INSUFFICIENT"
    ELSE "Ok"

\* Every ExportGateInputs value, with zero, one or two failed blocker gates.
ExportGateInputs ==
    [ policy_mode : PolicyMode,
      pinning_level : PinningLevel,
      citations_required_passed : BOOLEAN,
      redactions_required_passed : BOOLEAN,
      blocker_gate_failures : { << >>, <<"AUDIT_HASH_CHAIN.VERIFY_V1">>,
                                <<"AUDIT_HASH_CHAIN.VERIFY_V1",
                                  "MODEL_PINNING.MIN_LEVEL_V1">> },
      determinism_passed : BOOLEAN,
      network_mode : NetworkMode,
      proof_level : ProofLevel ]

(***************************************************************************)
(* The export gate alone, called on any inputs.                            *)
(***************************************************************************)
EvaluateExportGate ==
    /\ \E i \in ExportGateInputs :
          ret' = [op |-> "evaluate_export_gate", ok |-> TRUE, given |-> i,
                  result |-> evaluate_export_gate(i)]
    /\ UNCHANGED <<fileExists, lines, audit, state, fs, calls, managers, runs, vault>>

SpecGate == InitAudit /\ [][EvaluateExportGate]_vars

(***************************************************************************)
(* C5  evaluate_export_gate returns the reason of the first failing rule   *)
(* in the order: blocker failures, determinism, pinning NAME_ONLY when the *)
(* policy is not DRAFT_ONLY, STRICT without citations, STRICT or BALANCED  *)
(* without redactions, STRICT without OFFLINE and OFFLINE_STRICT; and Ok   *)
(* exactly when no rule fails.                                             *)
(***************************************************************************)
C5_Rules(i) ==
    << [fails |-> i.blocker_gate_failures # << >>, reason |-> "EVAL_FAILED"],
       [fails |-> ~i.determinism_passed, reason |-> "DETERMINISM_FAILED"],
       [fails |-> i.pinning_level = "NAME_ONLY" /\ i.policy_mode # "DRAFT_ONLY",
        reason |-> "INSUFFICIENT_PINNING"],
       [fails |-> i.policy_mode = "STRICT" /\ ~i.citations_required_passed,
        reason |-> "MISSING_CITATIONS"],
       [fails |-> i.policy_mode \in {"STRICT", "BALANCED"}
                    /\ ~i.redactions_required_passed,
        reason |-> "MISSING_REDACTIONS"],
       [fails |-> i.policy_mode = "STRICT"
                    /\ ~(i.network_mode = "OFFLINE" /\ i.proof_level = "OFFLINE_STRICT"),
        reason |-> "OFFLINE_PROOF_INSUFFICIENT"] >>

C5_FirstFailingRuleWins ==
    ret.op = "evaluate_export_gate" =>
        LET rules == C5_Rules(ret.given)
            failing == {n \in 1..Len(rules) : rules[n].fails}
        IN  /\ (ret.result = "Ok") <=> (failing = {})
            /\ \A n \in failing :
                  (\A m \in failing : n <= m) => ret.result = rules[n].reason

\* STRICT with both citations and redactions missing: the citation rule comes first.
C5_Witness ==
    /\ ret.op = "evaluate_export_gate"
    /\ ret.given.policy_mode = "STRICT"
    /\ ~ret.given.citations_required_passed
    /\ ~ret.given.redactions_required_passed
    /\ ret.result = "MISSING_CITATIONS"

(***************************************************************************)
(* run/manager.rs: the run state machine.                                  *)
(***************************************************************************)
RunState == {"CREATED", "INGESTING", "READY", "EXECUTING", "EVALUATING",
             "EXPORTING", "COMPLETED", "FAILED", "CANCELLED"}

\* valid_transition with one more arm, (COMPLETED, EVALUATING).
valid_transition_reexport(from, to) ==
    \/ from = "CREATED" /\ to = "INGESTING"
    \/ from = "CREATED" /\ to = "READY"
    \/ from = "READY" /\ to = "EXECUTING"
    \/ from = "EXECUTING" /\ to = "EVALUATING"
    \/ from = "READY" /\ to = "EVALUATING"
    \/ from = "EVALUATING" /\ to = "EXPORTING"
    \/ from = "EVALUATING" /\ to = "FAILED"
    \/ from = "EXPORTING" /\ to = "COMPLETED"
    \/ from = "EXPORTING" /\ to = "FAILED"
    \/ from = "COMPLETED" /\ to = "EVALUATING"
    \/ to = "CANCELLED"

valid_transition(from, to) ==
    \/ from = "CREATED" /\ to = "INGESTING"
    \/ from = "CREATED" /\ to = "READY"
    \/ from = "READY" /\ to = "EXECUTING"
    \/ from = "EXECUTING" /\ to = "EVALUATING"
    \/ from = "READY" /\ to = "EVALUATING"
    \/ from = "EVALUATING" /\ to = "EXPORTING"
    \/ from = "EVALUATING" /\ to = "FAILED"
    \/ from = "EXPORTING" /\ to = "COMPLETED"
    \/ from = "EXPORTING" /\ to = "FAILED"
    \/ to = "CANCELLED"

(***************************************************************************)
(* The operations of RunManager run on a context c: the log file, the      *)
(* handle's last_hash, the run state and the paths on disk, with c.err the *)
(* error that `?` is carrying out of the function ("none" while running).  *)
(* c.decision, c.overall and c.steps record what export_run computed.      *)
(***************************************************************************)
Context(file_lines, handle_last_hash, run_state, paths) ==
    [ lines |-> file_lines, last_hash |-> handle_last_hash, state |-> run_state,
      fs |-> paths, err |-> "none", gate_results |-> << >>,
      decision |-> "not_evaluated", gate_inputs |-> [none |-> TRUE],
      bundle_sha |-> [none |-> TRUE], summary |-> [none |-> TRUE],
      overall |-> "not_validated", steps |-> {} ]

\* self.audit.append(AuditEvent { .. })?
emit(c, event_type, run_id, actor, details) ==
    IF c.err # "none" THEN c
    ELSE LET appended(r) ==
                 IF r.ok
                 THEN [c EXCEPT !.lines = r.log.lines, !.last_hash = r.log.last_hash]
                 ELSE [c EXCEPT !.err = r.err]
         IN  appended(append([lines |-> c.lines, last_hash |-> c.last_hash],
                             AuditEvent(event_type, run_id, actor, details)))

\* transition that appends RUN_STATE_CHANGED before it tests the edge.
transition_emit_before_check(c, run_id, to, reason) ==
    IF c.err # "none" THEN c
    ELSE LET assigned(e) ==
                 IF e.err # "none" THEN e
                 ELSE IF ~valid_transition(c.state, to) THEN [e EXCEPT !.err = "PolicyBlocked"]
                 ELSE [e EXCEPT !.state = to]
         IN  assigned(emit(c, "RUN_STATE_CHANGED", run_id, "system",
                           [from_state |-> JStr(c.state), to_state |-> JStr(to),
                            reason |-> JStr(reason)]))

\* RunManager::transition
transition(c, run_id, to, reason) ==
    IF c.err # "none" THEN c
    ELSE IF ~valid_transition(c.state, to) THEN [c EXCEPT !.err = "PolicyBlocked"]
    ELSE LET assigned(e) == IF e.err # "none" THEN e ELSE [e EXCEPT !.state = to]
         IN  assigned(emit(c, "RUN_STATE_CHANGED", run_id, "system",
                           [from_state |-> JStr(c.state), to_state |-> JStr(to),
                            reason |-> JStr(reason)]))

(***************************************************************************)
(* The state machine alone.  RunManager.state is a public field, so a run  *)
(* may stand in any state when transition is called, with any target.      *)
(***************************************************************************)
InitTransition ==
    /\ fileExists = TRUE
    /\ lines = << >>
    /\ audit = [open |-> TRUE, last_hash |-> ZERO_HASH_64, from_existing |-> FALSE]
    /\ state \in RunState
    /\ fs = NoPaths
    /\ calls = 0
    /\ managers = 0
    /\ ret = [op |-> "none", ok |-> TRUE]
    /\ runs = NoRuns
    /\ vault = NoVault

RunManager_transition ==
    /\ Len(lines) < MaxLines
    /\ \E to \in RunState :
          LET c == transition(Context(lines, audit.last_hash, state, fs),
                              "r1", to, "requested")
          IN  /\ lines' = c.lines
              /\ audit' = [audit EXCEPT !.last_hash = c.last_hash]
              /\ state' = c.state
              /\ ret' = [op |-> "transition", ok |-> c.err = "none", err |-> c.err,
                         from |-> state, to |-> to]
    /\ UNCHANGED <<fileExists, fs, calls, managers, runs, vault>>

SpecTransition == InitTransition /\ [][RunManager_transition]_vars

(***************************************************************************)
(* C3  A transition from `from` to `to` succeeds iff the edge is one of    *)
(* the nine listed edges or to = CANCELLED; any other edge is rejected     *)
(* with PolicyBlocked, the run state stays as it was and no                *)
(* RUN_STATE_CHANGED event is appended.                                    *)
(***************************************************************************)
C3_LegalEdges ==
    { <<"CREATED", "INGESTING">>, <<"CREATED", "READY">>, <<"READY", "EXECUTING">>,
      <<"READY", "EVALUATING">>, <<"EXECUTING", "EVALUATING">>,
      <<"EVALUATING", "EXPORTING">>, <<"EVALUATING", "FAILED">>,
      <<"EXPORTING", "COMPLETED">>, <<"EXPORTING", "FAILED">> }

C3_TransitionIffLegalEdge ==
    [][ ret'.op = "transition" =>
          LET legal == <<state, ret'.to>> \in C3_LegalEdges \/ ret'.to = "CANCELLED"
          IN  /\ ret'.ok <=> legal
              /\ ret'.ok =>
                    /\ state' = ret'.to
                    /\ Len(lines') = Len(lines) + 1
                    /\ SubSeq(lines', 1, Len(lines)) = lines
                    /\ lines'[Len(lines')].event_type = "RUN_STATE_CHANGED"
                    /\ lines'[Len(lines')].details.from_state = JStr(state)
                    /\ lines'[Len(lines')].details.to_state = JStr(ret'.to)
              /\ ~ret'.ok =>
                    /\ ret'.err = "PolicyBlocked"
                    /\ state' = state
                    /\ lines' = lines
      ]_vars

\* An illegal edge was rejected after a legal one had been taken.
C3_Witness ==
    /\ ret.op = "transition" /\ ~ret.ok
    /\ ret.from = "COMPLETED" /\ ret.to = "EVALUATING"
    /\ Len(lines) >= 1
    /\ lines[Len(lines)].details.to_state = JStr("COMPLETED")

(***************************************************************************)
(* Bundle inputs.  The content of an EvidenceBundleInputs value is taken   *)
(* by the traits the validator and the gate analyzers look at; a bundle    *)
(* directory, and the archive made of it, hold the inputs they were built  *)
(* from.                                                                   *)
(***************************************************************************)
Traits ==
    { "network_snapshot_incomplete",   \* fails CHK.NETWORK.SNAPSHOT_PRESENT
      "audit_chain_broken",            \* fails CHK.AUDIT.REQUIRED_KEYS_AND_CHAIN
      "artifact_hashes_mismatch",      \* fails CHK.ARTIFACT_HASHES.VERIFY
      "model_snapshot_name_only",      \* model_snapshot.pinning_level = NAME_ONLY
      "claim_without_citation",        \* fails CHK.CITATIONS.STRICT under STRICT
      "citation_without_redaction",    \* fails CHK.REDACTION.POLICY_GATE
      "eval_report_invalid",           \* fails CHK.EVAL.REPORT_AND_GATES
      "encryption_at_rest_off",        \* fails CHK.VAULT_CRYPTO.POLICY_SNAPSHOT
      "determinism_disabled",          \* policy_snapshot.determinism.enabled = false
      "no_egress_blocked_event",       \* fails the offline allowlist analyzer
      "evidenceos_deliverable_missing",
      "evidenceos_mapping_review_missing",
      "pack_not_evidenceos",           \* BUNDLE_INFO.pack_id is another pack
      "non_integer_number" }           \* a JSON input holds a float

EvidenceBundleInputs ==
    { [traits |-> t] : t \in {x \in SUBSET Traits : Cardinality(x) <= MaxTraits} }

(***************************************************************************)
(* evidence_bundle/builder.rs and determinism/zip.rs on the modelled disk. *)
(* A step returns [fs, err]; `fails` is an I/O failure of that step.       *)
(***************************************************************************)
Absent == [kind |-> "absent"]

\* EvidenceBundleBuilder::build_dir: the tree is complete when every write went
\* through; write_json stops the build at an input that holds a float.
build_dir(paths, bundle_root, inputs, fails) ==
    IF fails
    THEN [fs |-> [paths EXCEPT ![bundle_root] = [kind |-> "partial_dir"]],
          err |-> "Io"]
    ELSE IF "non_integer_number" \in inputs.traits
    THEN [fs |-> [paths EXCEPT ![bundle_root] = [kind |-> "partial_dir"]],
          err |-> "DeterminismViolationError"]
    ELSE [fs |-> [paths EXCEPT ![bundle_root] = [kind |-> "dir", content |-> inputs]],
          err |-> "none"]

\* EvidenceBundleBuilder::build_zip / zip_dir_deterministic: writes out_zip in
\* place and returns the SHA-256 of its bytes.
build_zip(paths, bundle_root_dir, out_zip, fails) ==
    IF fails
    THEN [fs |-> [paths EXCEPT ![out_zip] = [kind |-> "partial_zip"]], err |-> "Zip"]
    ELSE LET archive == [kind |-> "zip", content |-> paths[bundle_root_dir].content]
         IN  [fs |-> [paths EXCEPT ![out_zip] = archive], err |-> "none",
              sha256 |-> Sha256Hex(archive)]

(***************************************************************************)
(* validator/mod.rs                                                        *)
(***************************************************************************)
CheckResult(check_id, severity, result, message) ==
    [check_id |-> check_id, severity |-> severity, result |-> result,
     message |-> message]

pass(check_id) == CheckResult(check_id, "BLOCKER", "PASS", "ok")
fail(check_id) == CheckResult(check_id, "BLOCKER", "FAIL", "failed")

\* A check that fails when the bundle has the trait.
check_trait(check_id, content, trait) ==
    IF trait \in content.traits THEN fail(check_id) ELSE pass(check_id)

check_model_pinning(content, policy) ==
    IF policy \in {"STRICT", "BALANCED"} /\ "model_snapshot_name_only" \in content.traits
    THEN fail("CHK.MODEL.PINNING_LEVEL")
    ELSE pass("CHK.MODEL.PINNING_LEVEL")

check_citations_strict(content, policy) ==
    IF policy # "STRICT"
    THEN CheckResult("CHK.CITATIONS.STRICT", "BLOCKER", "PASS", "not applicable")
    ELSE check_trait("CHK.CITATIONS.STRICT", content, "claim_without_citation")

check_redaction_policy_gate(content, policy) ==
    IF policy = "DRAFT_ONLY"
    THEN CheckResult("CHK.REDACTION.POLICY_GATE", "BLOCKER", "PASS", "not applicable")
    ELSE check_trait("CHK.REDACTION.POLICY_GATE", content, "citation_without_redaction")

\* An archive written by zip_dir_deterministic keeps every packaging rule.
check_zip_determinism(content) ==
    IF "determinism_disabled" \in content.traits
    THEN CheckResult("CHK.DETERMINISM.ZIP_RULES", "MAJOR", "PASS", "not applicable")
    ELSE pass("CHK.DETERMINISM.ZIP_RULES")

\* overall that looks at the checks of severity MAJOR in place of BLOCKER.
overall_of_major_only(checks_out) ==
    IF \E n \in 1..Len(checks_out) :
          checks_out[n].severity = "MAJOR" /\ checks_out[n].result # "PASS"
    THEN "FAIL" ELSE "PASS"

overall_of(checks_out) ==
    IF \E n \in 1..Len(checks_out) :
          checks_out[n].severity = "BLOCKER" /\ checks_out[n].result # "PASS"
    THEN "FAIL" ELSE "PASS"

\* BundleValidator::validate_zip on an archive that build_dir and build_zip wrote:
\* the required files and the attachments layout are there by construction.
validate_zip(archive, policy) ==
    LET content == archive.content
        checks_out ==
          << pass("CHK.BUNDLE.REQUIRED_FILES"),
             pass("CHK.EXPORTS.ATTACHMENTS_LAYOUT"),
             check_trait("CHK.NETWORK.SNAPSHOT_PRESENT", content,
                         "network_snapshot_incomplete"),
             check_trait("CHK.AUDIT.REQUIRED_KEYS_AND_CHAIN", content,
                         "audit_chain_broken"),
             check_trait("CHK.ARTIFACT_HASHES.VERIFY", content,
                         "artifact_hashes_mismatch"),
             check_model_pinning(content, policy),
             check_citations_strict(content, policy),
             check_redaction_policy_gate(content, policy),
             check_trait("CHK.EVAL.REPORT_AND_GATES", content, "eval_report_invalid"),
             check_zip_determinism(content),
             check_trait("CHK.VAULT_CRYPTO.POLICY_SNAPSHOT", content,
                         "encryption_at_rest_off") >>
    IN  [policy |-> policy, overall |-> overall_of(checks_out), checks |-> checks_out]

\* ValidationSummary::result_for_check
result_for_check(summary, check_id) ==
    LET hits == {n \in 1..Len(summary.checks) : summary.checks[n].check_id = check_id}
    IN  IF hits = {} THEN <<"FAIL", "missing check result">>
        ELSE LET n == CHOOSE x \in hits : \A y \in hits : x <= y
             IN  <<summary.checks[n].result, summary.checks[n].message>>

\* ValidationSummary::result_for_checks_prefix("CHK.BUNDLE."): the one check id
\* of the validator with that prefix is CHK.BUNDLE.REQUIRED_FILES.
result_for_checks_prefix_bundle(summary) ==
    IF \E n \in 1..Len(summary.checks) :
          /\ summary.checks[n].check_id \in {"CHK.BUNDLE.REQUIRED_FILES"}
          /\ summary.checks[n].result # "PASS"
    THEN <<"FAIL", "one or more checks failed">>
    ELSE <<"PASS", "ok">>

(***************************************************************************)
(* eval/registry.rs and eval/runner.rs                                     *)
(***************************************************************************)
GateDef(gate_id, severity, applies_to_policies) ==
    [gate_id |-> gate_id, severity |-> severity,
     applies_to_policies |-> applies_to_policies]

\* The gates of the embedded registry_v3.json, in the order of the file.
registry_v3_gates ==
    << GateDef("BUNDLE_FORMAT.REQUIRED_FILES_V1", "BLOCKER", PolicyMode),
       GateDef("AUDIT_HASH_CHAIN.VERIFY_V1", "BLOCKER", PolicyMode),
       GateDef("OFFLINE_ENFORCEMENT.MODE_PROOF_V1", "BLOCKER", PolicyMode),
       GateDef("OFFLINE_ENFORCEMENT.ALLOWLIST_MATCH_V1", "BLOCKER", PolicyMode),
       GateDef("CITATIONS.STRICT_ENFORCED_V1", "BLOCKER", {"STRICT"}),
       GateDef("REDACTION.REQUIRED_APPLIED_V1", "BLOCKER", {"STRICT", "BALANCED"}),
       GateDef("MODEL_PINNING.MIN_LEVEL_V1", "BLOCKER", PolicyMode),
       GateDef("VAULT_CRYPTO.ENCRYPTION_AT_REST_V1", "BLOCKER", PolicyMode),
       GateDef("DETERMINISM.ZIP_PACKAGING_V1", "MAJOR", PolicyMode),
       GateDef("DETERMINISM.PDF_CAPABLE_V1", "MAJOR", PolicyMode),
       GateDef("EVIDENCEOS.OUTPUTS_PRESENT_V1", "BLOCKER", PolicyMode),
       GateDef("EVIDENCEOS.MAPPING_REVIEW_PRESENT_V1", "BLOCKER", PolicyMode) >>

\* String::cmp on the gate ids: their place in lexicographic order.
GateIdsAscending ==
    << "AUDIT_HASH_CHAIN.VERIFY_V1", "BUNDLE_FORMAT.REQUIRED_FILES_V1",
       "CITATIONS.STRICT_ENFORCED_V1", "DETERMINISM.PDF_CAPABLE_V1",
       "DETERMINISM.ZIP_PACKAGING_V1", "EVIDENCEOS.MAPPING_REVIEW_PRESENT_V1",
       "EVIDENCEOS.OUTPUTS_PRESENT_V1", "MODEL_PINNING.MIN_LEVEL_V1",
       "OFFLINE_ENFORCEMENT.ALLOWLIST_MATCH_V1", "OFFLINE_ENFORCEMENT.MODE_PROOF_V1",
       "REDACTION.REQUIRED_APPLIED_V1", "VAULT_CRYPTO.ENCRYPTION_AT_REST_V1" >>

gate_id_rank(gate_id) ==
    CHOOSE n \in 1..Len(GateIdsAscending) : GateIdsAscending[n] = gate_id

\* results left in the order of the registry.
sort_by_gate_id_skipped(results) == results

\* results.sort_by(|a, b| a.gate_id.cmp(&b.gate_id)), a stable sort.
RECURSIVE sort_by_gate_id(_)
sort_by_gate_id(results) ==
    IF Len(results) <= 1 THEN results
    ELSE LET n == Len(results)
             sorted == sort_by_gate_id(SubSeq(results, 1, n - 1))
             g == results[n]
             k == Cardinality({m \in 1..Len(sorted) :
                      gate_id_rank(sorted[m].gate_id) <= gate_id_rank(g.gate_id)})
         IN  SubSeq(sorted, 1, k) \o <<g>> \o SubSeq(sorted, k + 1, Len(sorted))

\* evaluate_offline_allowlist_gate, by the trait of the bundle's own audit log.
evaluate_offline_allowlist_gate(content) ==
    IF "no_egress_blocked_event" \in content.traits
    THEN <<"FAIL", "no EGRESS_REQUEST_BLOCKED events recorded">>
    ELSE <<"PASS", "ok">>

is_evidenceos_pack(content) == "pack_not_evidenceos" \notin content.traits

evaluate_evidenceos_outputs_gate(content) ==
    IF ~is_evidenceos_pack(content) THEN <<"NOT_APPLICABLE", "not evidenceos pack">>
    ELSE IF "evidenceos_deliverable_missing" \in content.traits
    THEN <<"FAIL", "missing required EvidenceOS deliverable">>
    ELSE <<"PASS", "ok">>

evaluate_evidenceos_mapping_review_gate(content) ==
    IF ~is_evidenceos_pack(content) THEN <<"NOT_APPLICABLE", "not evidenceos pack">>
    ELSE IF "evidenceos_mapping_review_missing" \in content.traits
    THEN <<"FAIL", "missing evidence_mapping_review.json">>
    ELSE <<"PASS", "ok">>

\* The match of map_validator_to_gates on the gate id.
gate_result(gate_id, summary, allowlist_gate, evidence_outputs_gate, mapping_review_gate) ==
    CASE gate_id = "BUNDLE_FORMAT.REQUIRED_FILES_V1" ->
            result_for_checks_prefix_bundle(summary)
      [] gate_id = "AUDIT_HASH_CHAIN.VERIFY_V1" ->
            result_for_check(summary, "CHK.AUDIT.REQUIRED_KEYS_AND_CHAIN")
      [] gate_id = "OFFLINE_ENFORCEMENT.MODE_PROOF_V1" ->
            result_for_check(summary, "CHK.NETWORK.SNAPSHOT_PRESENT")
      [] gate_id = "OFFLINE_ENFORCEMENT.ALLOWLIST_MATCH_V1" -> allowlist_gate
      [] gate_id = "CITATIONS.STRICT_ENFORCED_V1" ->
            result_for_check(summary, "CHK.CITATIONS.STRICT")
      [] gate_id = "REDACTION.REQUIRED_APPLIED_V1" ->
            result_for_check(summary, "CHK.REDACTION.POLICY_GATE")
      [] gate_id = "MODEL_PINNING.MIN_LEVEL_V1" ->
            result_for_check(summary, "CHK.MODEL.PINNING_LEVEL")
      [] gate_id = "VAULT_CRYPTO.ENCRYPTION_AT_REST_V1" ->
            result_for_check(summary, "CHK.VAULT_CRYPTO.POLICY_SNAPSHOT")
      [] gate_id = "DETERMINISM.ZIP_PACKAGING_V1" ->
            result_for_check(summary, "CHK.DETERMINISM.ZIP_RULES")
      [] gate_id = "DETERMINISM.PDF_CAPABLE_V1" ->
            <<"NOT_APPLICABLE", "No PDFs in self-audit bundle">>
      [] gate_id = "EVIDENCEOS.OUTPUTS_PRESENT_V1" -> evidence_outputs_gate
      [] gate_id = "EVIDENCEOS.MAPPING_REVIEW_PRESENT_V1" -> mapping_review_gate
      [] OTHER -> <<"NOT_APPLICABLE", "Gate not implemented in Phase 2 runner">>

\* map_validator_to_gates: one GateRunResult per gate of the registry that applies
\* to the policy, then sorted by gate_id.
RECURSIVE gate_results_in_registry_order(_, _, _, _, _, _)
gate_results_in_registry_order(gates, summary, policy, allowlist_gate, evidence_outputs_gate, mapping_review_gate) ==
    IF gates = << >> THEN << >>
    ELSE LET g == Head(gates)
             rest == gate_results_in_registry_order(Tail(gates), summary, policy,
                        allowlist_gate, evidence_outputs_gate, mapping_review_gate)
             r == gate_result(g.gate_id, summary, allowlist_gate,
                              evidence_outputs_gate, mapping_review_gate)
         IN  IF policy \notin g.applies_to_policies THEN rest
             ELSE << [gate_id |-> g.gate_id, result |-> r[1],
                      severity |-> g.severity, message |-> r[2],
                      evidence_pointers |-> << >>] >> \o rest

map_validator_to_gates(summary, policy, allowlist_gate, evidence_outputs_gate, mapping_review_gate) ==
    sort_by_gate_id(
        gate_results_in_registry_order(registry_v3_gates, summary, policy,
            allowlist_gate, evidence_outputs_gate, mapping_review_gate))

\* EvalRunner::run_all_for_bundle on a readable archive.
run_all_for_bundle(archive, policy) ==
    map_validator_to_gates(validate_zip(archive, policy), policy,
        evaluate_offline_allowlist_gate(archive.content),
        evaluate_evidenceos_outputs_gate(archive.content),
        evaluate_evidenceos_mapping_review_gate(archive.content))

(***************************************************************************)
(* run/manager.rs: export_run.                                             *)
(***************************************************************************)
ExportRequest ==
    [ run_id : {"r1"}, policy_mode : PolicyMode, network_mode : NetworkMode,
      proof_level : ProofLevel, pinning_level : PinningLevel,
      requested_by : {"user"} ]

\* The step of export_run whose I/O fails in a call, if any.
Faults == {"none", "preflight_build_dir", "preflight_build_zip",
           "run_all_for_bundle", "final_build_dir", "final_build_zip",
           "validate_zip"}

None == [none |-> TRUE]
Some(v) == [some |-> v]

\* What export_run hands back: the context it leaves, and Ok(outcome) or Err(err).
Returned(c, outcome) ==
    IF c.err # "none" THEN [c |-> c, ok |-> FALSE, err |-> c.err]
    ELSE [c |-> c, ok |-> TRUE, err |-> "none", outcome |-> outcome]

\* let _ = remove_dir_all(&preflight_root); let _ = remove_file(&preflight_zip);
remove_preflight(c) ==
    IF c.err # "none" THEN c
    ELSE [c EXCEPT !.fs = [@ EXCEPT !["preflight_root"] = Absent,
                                    !["preflight_zip"] = Absent]]

\* Lines 67-95: EXPORT_REQUESTED, the transition to EVALUATING, EVAL_STARTED.
export_run_request(c0, req) ==
    emit(transition(emit(c0, "EXPORT_REQUESTED", req.run_id, "user",
                         [requested_by |-> JStr(req.requested_by),
                          export_targets |-> JArr(<<JStr("bundle_zip")>>),
                          policy_mode |-> JStr(req.policy_mode)]),
                    req.run_id, "EVALUATING", "export requested"),
         "EVAL_STARTED", req.run_id, "system",
         [registry_version |-> JStr("gates_registry_v3")])

\* build_dir(root)? then build_zip(root, zip)? on the disk of c.
build_bundle(c, root, zip, inputs, dir_fails, zip_fails) ==
    LET zipped(d) ==
            IF d.err # "none" THEN [c EXCEPT !.fs = d.fs, !.err = d.err]
            ELSE LET kept(z) ==
                         IF z.err # "none" THEN [c EXCEPT !.fs = z.fs, !.err = z.err]
                         ELSE [c EXCEPT !.fs = z.fs, !.bundle_sha = [some |-> z.sha256]]
                 IN  kept(build_zip(d.fs, root, zip, zip_fails))
    IN  zipped(build_dir(c.fs, root, inputs, dir_fails))

\* Lines 97-108: the preflight bundle, built after what the paths held is removed.
build_preflight(c, inputs, fault) ==
    IF c.err # "none" THEN c
    ELSE build_bundle(remove_preflight(c), "preflight_root", "preflight_zip", inputs,
                      fault = "preflight_build_dir", fault = "preflight_build_zip")

\* Lines 110-111: eval_runner.run_all_for_bundle(&preflight_zip, req.policy_mode)?
run_gates(c, req, fault) ==
    IF c.err # "none" THEN c
    ELSE IF fault = "run_all_for_bundle" THEN [c EXCEPT !.err = "Zip"]
    ELSE [c EXCEPT !.gate_results =
                      run_all_for_bundle(c.fs["preflight_zip"], req.policy_mode)]

\* Lines 113-133: one EVAL_GATE_RESULT per gate result, in the order of the vector.
RECURSIVE emit_gate_results(_, _, _)
emit_gate_results(c, run_id, gate_results) ==
    IF gate_results = << >> THEN c
    ELSE emit_gate_results(
             emit(c, "EVAL_GATE_RESULT", run_id, "system",
                  [gate_id |-> JStr(Head(gate_results).gate_id),
                   result |-> JStr(Head(gate_results).result),
                   severity |-> JStr(Head(gate_results).severity),
                   evidence_pointers |-> JArr(Head(gate_results).evidence_pointers),
                   message |-> JStr(Head(gate_results).message)]),
             run_id, Tail(gate_results))

\* blocker_fails that stays empty.
blocker_fails_of_none(gate_results) == << >>

\* The gate ids pushed on blocker_fails.
blocker_fails_of(gate_results) ==
    LET ids(failed) == [n \in 1..Len(failed) |-> failed[n].gate_id]
    IN  ids(SelectSeq(gate_results,
                      LAMBDA g : g.severity = "BLOCKER" /\ g.result = "FAIL"))

\* Lines 112-147: the EVAL_GATE_RESULT events and EVAL_COMPLETED.
emit_eval(c, req) ==
    emit(emit_gate_results(c, req.run_id, c.gate_results),
         "EVAL_COMPLETED", req.run_id, "system",
         [gates_executed |-> JInt(Len(c.gate_results)),
          gates_failed_blocker |-> JInt(Len(blocker_fails_of(c.gate_results))),
          gates_failed_total |-> JInt(Len(blocker_fails_of(c.gate_results)))])

\* find(gate_id).map(PASS or NOT_APPLICABLE).unwrap_or(true)
gate_passed(gate_results, gate_id) ==
    LET found(hits) ==
            IF hits = {} THEN TRUE
            ELSE gate_results[CHOOSE x \in hits : \A y \in hits : x <= y].result
                     \in {"PASS", "NOT_APPLICABLE"}
    IN  found({n \in 1..Len(gate_results) : gate_results[n].gate_id = gate_id})

\* The ExportGateInputs value of lines 166-175.
gate_inputs_of(req, gate_results) ==
    [ policy_mode |-> req.policy_mode,
      pinning_level |-> req.pinning_level,
      citations_required_passed |->
          gate_passed(gate_results, "CITATIONS.STRICT_ENFORCED_V1"),
      redactions_required_passed |->
          gate_passed(gate_results, "REDACTION.REQUIRED_APPLIED_V1"),
      blocker_gate_failures |-> blocker_fails_of(gate_results),
      determinism_passed |-> gate_passed(gate_results, "DETERMINISM.ZIP_PACKAGING_V1"),
      network_mode |-> req.network_mode,
      proof_level |-> req.proof_level ]

\* Lines 150-175: let decision = evaluate_export_gate(&ExportGateInputs { .. })
decide(c, req) ==
    IF c.err # "none" THEN c
    ELSE LET decided(i) == [c EXCEPT !.gate_inputs = i,
                                     !.decision = evaluate_export_gate(i)]
         IN  decided(gate_inputs_of(req, c.gate_results))

\* a gate decision that never blocks.
gate_blocked_never(decision) == FALSE

\* if let Err(reason) = decision
gate_blocked(decision) == decision # "Ok"

\* a validation summary that never fails the export.
validation_failed_never(summary) == FALSE

\* if summary.overall != "PASS"
validation_failed(summary) == summary.overall # "PASS"

\* The blocked branch without the transition to FAILED.
export_blocked_no_transition(c, req) ==
    Returned(
        remove_preflight(
            emit(c, "EXPORT_BLOCKED", req.run_id, "system",
                 [block_reason |-> JStr(c.decision),
                  failed_gate_ids |->
                      JArr([n \in 1..Len(c.gate_inputs.blocker_gate_failures) |->
                               JStr(c.gate_inputs.blocker_gate_failures[n])])])),
        [status |-> "BLOCKED", bundle_path |-> None, bundle_sha256 |-> None,
         block_reason |-> Some(c.decision)])

\* Lines 176-197: the export gate blocked.
export_blocked(c, req) ==
    Returned(
        remove_preflight(
            transition(
                emit(c, "EXPORT_BLOCKED", req.run_id, "system",
                     [block_reason |-> JStr(c.decision),
                      failed_gate_ids |->
                          JArr([n \in 1..Len(c.gate_inputs.blocker_gate_failures) |->
                                   JStr(c.gate_inputs.blocker_gate_failures[n])])]),
                req.run_id, "FAILED", "export blocked")),
        [status |-> "BLOCKED", bundle_path |-> None, bundle_sha256 |-> None,
         block_reason |-> Some(c.decision)])

\* Lines 216-217: the final build_dir and build_zip.
build_final(c, inputs, fault) ==
    IF c.err # "none" THEN c
    ELSE LET ran(b) ==
                 [b EXCEPT !.steps = IF b.fs["bundle_dir"].kind = "dir"
                                     THEN {"build_dir", "build_zip"}
                                     ELSE {"build_dir"}]
         IN  ran(build_bundle(c, "bundle_dir", "bundle_zip", inputs,
                              fault = "final_build_dir", fault = "final_build_zip"))

\* failed_checks of BUNDLE_VALIDATION_RESULT.
failed_check_ids(summary) ==
    LET ids(failed) == [n \in 1..Len(failed) |-> JStr(failed[n].check_id)]
    IN  JArr(ids(SelectSeq(summary.checks, LAMBDA k : k.result # "PASS")))

\* Lines 240-255: validate_zip on bundle_zip and BUNDLE_VALIDATION_RESULT.
validate_final(c, req, fault) ==
    IF c.err # "none" THEN c
    ELSE IF fault = "validate_zip" THEN [c EXCEPT !.err = "Zip"]
    ELSE LET recorded(summary) ==
                 emit([c EXCEPT !.summary = summary, !.overall = summary.overall],
                      "BUNDLE_VALIDATION_RESULT", req.run_id, "system",
                      [result |-> JStr(summary.overall),
                       failed_checks |-> failed_check_ids(summary),
                       validator_version |-> JStr("bundle_validator_v3")])
         IN  recorded(validate_zip(c.fs["bundle_zip"], req.policy_mode))

\* The validation-failure branch that removes what the final build wrote.
export_failed_rolled_back(c, req) ==
    Returned(
        transition(
            emit([c EXCEPT !.fs = [@ EXCEPT !["bundle_dir"] = Absent,
                                            !["bundle_zip"] = Absent]],
                 "EXPORT_FAILED", req.run_id, "system",
                 [reason |-> JStr("BUNDLE_VALIDATION_FAILED")]),
            req.run_id, "FAILED", "bundle validation failed"),
        [status |-> "FAILED", bundle_path |-> None, bundle_sha256 |-> None,
         block_reason |-> Some("BUNDLE_VALIDATION_FAILED")])

\* Lines 257-273: the validator did not pass.
export_failed(c, req) ==
    Returned(
        transition(
            emit(c, "EXPORT_FAILED", req.run_id, "system",
                 [reason |-> JStr("BUNDLE_VALIDATION_FAILED")]),
            req.run_id, "FAILED", "bundle validation failed"),
        [status |-> "FAILED", bundle_path |-> None, bundle_sha256 |-> None,
         block_reason |-> Some("BUNDLE_VALIDATION_FAILED")])

\* Lines 277-299: the export completed.
export_completed(c, req) ==
    Returned(
        transition(
            emit(c, "EXPORT_COMPLETED", req.run_id, "system",
                 [bundle_path |-> JStr("bundle_zip"),
                  bundle_sha256 |-> JStr(c.bundle_sha.some),
                  bundle_version |-> JStr("EVIDENCE_BUNDLE_V1"),
                  validator_result |-> JStr("PASS")]),
            req.run_id, "COMPLETED", "export completed"),
        [status |-> "COMPLETED", bundle_path |-> Some("bundle_zip"),
         bundle_sha256 |-> c.bundle_sha, block_reason |-> None])

\* Lines 256-299: what follows BUNDLE_VALIDATION_RESULT.
export_finish(c, req) ==
    IF c.err # "none" THEN Returned(c, None)
    ELSE IF validation_failed(c.summary) THEN export_failed(c, req)
    ELSE export_completed(c, req)

\* Lines 200-299: the export gate allowed.
export_allowed(c, req, inputs, fault) ==
    export_finish(
        validate_final(
            emit(emit(build_final(
                          emit(transition(remove_preflight(c), req.run_id,
                                          "EXPORTING", "gates passed"),
                               "BUNDLE_GENERATION_STARTED", req.run_id, "system",
                               EmptyObject),
                          inputs, fault),
                      "BUNDLE_GENERATION_COMPLETED", req.run_id, "system", EmptyObject),
                 "BUNDLE_VALIDATION_STARTED", req.run_id, "system", EmptyObject),
            req, fault),
        req)

\* Line 176: the branch on the decision.
export_branch(c, req, inputs, fault) ==
    IF c.err # "none" THEN Returned(c, None)
    ELSE IF gate_blocked(c.decision) THEN export_blocked(c, req)
    ELSE export_allowed(c, req, inputs, fault)

\* Lines 97-299, entered once EVAL_STARTED is on the log.
export_run_evaluate(c3, req, inputs, fault) ==
    export_branch(
        decide(emit_eval(run_gates(build_preflight(c3, inputs, fault), req, fault), req),
               req),
        req, inputs, fault)

\* RunManager::export_run
export_run(c0, req, inputs, fault) ==
    LET requested(c3) == IF c3.err # "none" THEN Returned(c3, None)
                         ELSE export_run_evaluate(c3, req, inputs, fault)
    IN  requested(export_run_request(c0, req))

(***************************************************************************)
(* One RunManager on a log it created: export_run is called on it with any *)
(* request, any bundle inputs and any failing step.                        *)
(***************************************************************************)
\* Whether export_run stops before it reads the bundle inputs.
stops_at_request(req) ==
    export_run_request(Context(lines, audit.last_hash, state, fs), req).err # "none"

\* export_run reads run_id, requested_by and policy_mode of the request before
\* the first transition: of the requests that stop there, one is tried for each
\* value of these three fields.
requests_tried(requests) ==
    { req \in requests :
        stops_at_request(req) =>
            req = CHOOSE q \in requests :
                      /\ q.run_id = req.run_id
                      /\ q.requested_by = req.requested_by
                      /\ q.policy_mode = req.policy_mode }

ExportRun(requests, bundle_inputs, faults) ==
    /\ audit.open
    /\ managers >= 1
    /\ calls < MaxCalls
    /\ \E req \in requests_tried(requests) :
       \E inputs \in (IF stops_at_request(req) THEN {[traits |-> {}]} ELSE bundle_inputs) :
       \E fault \in (IF stops_at_request(req) THEN {"none"} ELSE faults) :
          \E r \in {export_run(Context(lines, audit.last_hash, state, fs),
                              req, inputs, fault)} :
              /\ lines' = r.c.lines
              /\ audit' = [audit EXCEPT !.last_hash = r.c.last_hash]
              /\ state' = r.c.state
              /\ fs' = r.c.fs
              /\ ret' = [op |-> "export_run", ok |-> r.ok, err |-> r.err,
                         outcome |-> IF r.ok THEN r.outcome ELSE None,
                         state_before |-> state, lines_before |-> Len(lines),
                         decision |-> r.c.decision, gate_inputs |-> r.c.gate_inputs,
                         overall |-> r.c.overall, steps |-> r.c.steps]
    /\ calls' = calls + 1
    /\ UNCHANGED <<fileExists, managers, runs, vault>>

RunManager_export_run == ExportRun(ExportRequest, EvidenceBundleInputs, Faults)

Init ==
    /\ fileExists = TRUE
    /\ lines = << >>
    /\ audit = [open |-> TRUE, last_hash |-> ZERO_HASH_64, from_existing |-> FALSE]
    /\ state = "READY"
    /\ fs = NoPaths
    /\ calls = 0
    /\ managers = 1
    /\ ret = [op |-> "none", ok |-> TRUE]
    /\ runs = NoRuns
    /\ vault = NoVault

Next == RunManager_export_run

Spec == Init /\ [][Next]_vars

(***************************************************************************)
(* RunManager values created one after another on the same log: the old    *)
(* one is dropped with its AuditLog, the log is opened again and           *)
(* RunManager::new wraps the handle.                                       *)
(***************************************************************************)
MaxManagers == 2

\* AuditLog::open_or_create on the existing file, then RunManager::new.
RunManager_new ==
    /\ audit.open
    /\ managers < MaxManagers
    /\ audit' = [open |-> TRUE, last_hash |-> recover_last_hash(lines),
                 from_existing |-> TRUE]
    /\ state' = "READY"
    /\ calls' = 0
    /\ managers' = managers + 1
    /\ ret' = [op |-> "new", ok |-> TRUE]
    /\ UNCHANGED <<fileExists, lines, fs, runs, vault>>

\* The requests, inputs and failing steps of the exports of run r1.
ReopenRequests ==
    { r \in ExportRequest :
        /\ r.policy_mode = "STRICT" /\ r.network_mode = "OFFLINE"
        /\ r.proof_level = "OFFLINE_STRICT"
        /\ r.pinning_level \in {"CRYPTO_PINNED", "NAME_ONLY"} }

ReopenInputs == { [traits |-> {}], [traits |-> {"artifact_hashes_mismatch"}] }

ReopenFaults == {"none", "final_build_zip", "validate_zip"}

RunManager_export_run_again == ExportRun(ReopenRequests, ReopenInputs, ReopenFaults)

NextReopen == RunManager_new \/ RunManager_export_run_again

SpecReopen == Init /\ [][NextReopen]_vars

(***************************************************************************)
(* What the last export_run call appended, and the request it was given.   *)
(***************************************************************************)
ExportAppended ==
    IF ret.op = "export_run" THEN SubSeq(lines, ret.lines_before + 1, Len(lines))
    ELSE << >>

ExportAppendedTypes == [n \in 1..Len(ExportAppended) |-> ExportAppended[n].event_type]

ExportPolicy == ExportAppended[1].details.policy_mode.s

ExportReturned(status) ==
    ret.op = "export_run" /\ ret.ok /\ ret.outcome.status = status

IsStateChange(e, from, to) ==
    /\ e.event_type = "RUN_STATE_CHANGED"
    /\ e.details.from_state = JStr(from)
    /\ e.details.to_state = JStr(to)

(***************************************************************************)
(* C1  export_run appends EXPORT_COMPLETED and returns COMPLETED only when *)
(* evaluate_export_gate returned Ok and validate_zip on the final archive  *)
(* reported PASS.  When the gate blocks, none of                           *)
(* BUNDLE_GENERATION_STARTED, BUNDLE_VALIDATION_STARTED,                   *)
(* BUNDLE_VALIDATION_RESULT and EXPORT_COMPLETED is appended, and the      *)
(* final build_dir and build_zip are not run.                              *)
(***************************************************************************)
C1_CompletedOnlyAfterGateAndValidator ==
    ret.op = "export_run" =>
        LET types == {ExportAppendedTypes[n] : n \in 1..Len(ExportAppended)}
        IN  /\ ("EXPORT_COMPLETED" \in types \/ ExportReturned("COMPLETED")) =>
                  /\ "EXPORT_COMPLETED" \in types /\ ExportReturned("COMPLETED")
                  /\ ret.decision = "Ok"
                  /\ evaluate_export_gate(ret.gate_inputs) = "Ok"
                  /\ ret.overall = "PASS"
                  /\ validate_zip(fs["bundle_zip"], ExportPolicy).overall = "PASS"
            /\ ret.decision \notin {"Ok", "not_evaluated"} =>
                  /\ types \cap {"BUNDLE_GENERATION_STARTED", "BUNDLE_VALIDATION_STARTED",
                                 "BUNDLE_VALIDATION_RESULT", "EXPORT_COMPLETED"} = {}
                  /\ ret.steps \cap {"build_dir", "build_zip"} = {}

\* A BALANCED export completed with the final archive on disk.
C1_Witness ==
    /\ ExportReturned("COMPLETED")
    /\ ExportPolicy = "BALANCED"
    /\ fs["bundle_zip"].kind = "zip"
    /\ ret.steps = {"build_dir", "build_zip"}

\* A blocked export: the gate was evaluated and the final build was never reached.
C1_WitnessBlocked ==
    /\ ExportReturned("BLOCKED")
    /\ ret.decision = "EVAL_FAILED"
    /\ fs["bundle_zip"].kind = "absent"

(***************************************************************************)
(* C4  When the gate allows and the validator passes, export_run appends   *)
(* exactly: EXPORT_REQUESTED, RUN_STATE_CHANGED(READY -> EVALUATING),      *)
(* EVAL_STARTED, one EVAL_GATE_RESULT per gate in ascending gate_id order, *)
(* EVAL_COMPLETED, RUN_STATE_CHANGED(EVALUATING -> EXPORTING),             *)
(* BUNDLE_GENERATION_STARTED, BUNDLE_GENERATION_COMPLETED,                 *)
(* BUNDLE_VALIDATION_STARTED, BUNDLE_VALIDATION_RESULT, EXPORT_COMPLETED,  *)
(* RUN_STATE_CHANGED(EXPORTING -> COMPLETED).                              *)
(***************************************************************************)
C4_GateIds(policy) ==
    SelectSeq(GateIdsAscending,
              LAMBDA id : \E n \in 1..Len(registry_v3_gates) :
                             /\ registry_v3_gates[n].gate_id = id
                             /\ policy \in registry_v3_gates[n].applies_to_policies)

C4_ExactEventSequence ==
    (ret.op = "export_run" /\ ret.decision = "Ok" /\ ret.overall = "PASS") =>
        LET ids == C4_GateIds(ExportPolicy)
            k == Len(ids)
            a == ExportAppended
        IN  /\ ExportAppendedTypes =
                  <<"EXPORT_REQUESTED", "RUN_STATE_CHANGED", "EVAL_STARTED">>
                  \o [n \in 1..k |-> "EVAL_GATE_RESULT"]
                  \o <<"EVAL_COMPLETED", "RUN_STATE_CHANGED",
                       "BUNDLE_GENERATION_STARTED", "BUNDLE_GENERATION_COMPLETED",
                       "BUNDLE_VALIDATION_STARTED", "BUNDLE_VALIDATION_RESULT",
                       "EXPORT_COMPLETED", "RUN_STATE_CHANGED">>
            /\ \A n \in 1..k : a[3 + n].details.gate_id = JStr(ids[n])
            /\ IsStateChange(a[2], "READY", "EVALUATING")
            /\ IsStateChange(a[k + 5], "EVALUATING", "EXPORTING")
            /\ IsStateChange(a[k + 11], "EXPORTING", "COMPLETED")
            /\ ExportReturned("COMPLETED")

\* A STRICT export completed: every gate of the registry applies.
C4_Witness ==
    /\ ExportReturned("COMPLETED")
    /\ ExportPolicy = "STRICT"
    /\ Len(ExportAppended) = Len(registry_v3_gates) + 11

(***************************************************************************)
(* C6  On a fatal error inside export_run (a build failure, a              *)
(* canonicalization rejection, a gate runner or validator error) the run   *)
(* state becomes FAILED and a failure audit event is appended before the   *)
(* error reaches the caller.                                               *)
(***************************************************************************)
C6_FatalErrorMarksRunFailed ==
    (ret.op = "export_run" /\ ~ret.ok
       /\ ret.err \in {"Io", "Zip", "DeterminismViolationError"}) =>
        /\ state = "FAILED"
        /\ \E n \in 1..Len(ExportAppended) :
              \/ ExportAppended[n].event_type \in {"EXPORT_FAILED", "EXPORT_BLOCKED"}
              \/ /\ ExportAppended[n].event_type = "RUN_STATE_CHANGED"
                 /\ ExportAppended[n].details.to_state = JStr("FAILED")

(***************************************************************************)
(* C7  When the validator reports an overall result other than PASS,       *)
(* export_run appends BUNDLE_VALIDATION_RESULT and then EXPORT_FAILED,     *)
(* moves the run from EXPORTING to FAILED, and returns Ok with status      *)
(* FAILED, block_reason BUNDLE_VALIDATION_FAILED, no bundle path and no    *)
(* digest; EXPORT_COMPLETED is never appended.                             *)
(***************************************************************************)
C7_ValidatorFailureFailsExport ==
    (ret.op = "export_run" /\ ret.overall \notin {"PASS", "not_validated"}) =>
        LET a == ExportAppended
            n == Len(a)
        IN  /\ n >= 3
            /\ a[n - 2].event_type = "BUNDLE_VALIDATION_RESULT"
            /\ a[n - 2].details.result = JStr(ret.overall)
            /\ a[n - 1].event_type = "EXPORT_FAILED"
            /\ a[n - 1].details.reason = JStr("BUNDLE_VALIDATION_FAILED")
            /\ IsStateChange(a[n], "EXPORTING", "FAILED")
            /\ state = "FAILED"
            /\ ret.ok
            /\ ret.outcome = [status |-> "FAILED", bundle_path |-> None,
                              bundle_sha256 |-> None,
                              block_reason |-> Some("BUNDLE_VALIDATION_FAILED")]
            /\ \A m \in 1..n : a[m].event_type # "EXPORT_COMPLETED"

\* The gate allowed the export and the validator failed the final archive.
C7_Witness ==
    /\ ret.op = "export_run"
    /\ ret.decision = "Ok"
    /\ ret.overall = "FAIL"
    /\ fs["bundle_zip"].kind = "zip"

(***************************************************************************)
(* C8  When the export gate blocks, export_run returns BLOCKED with the    *)
(* gate's reason, the run state is FAILED, and the last event in the audit *)
(* log is EXPORT_BLOCKED carrying the reason and the failed gate ids.      *)
(***************************************************************************)
C8_FailedGateIds ==
    LET failed == SelectSeq(ExportAppended,
                    LAMBDA e : /\ e.event_type = "EVAL_GATE_RESULT"
                               /\ e.details.severity = JStr("BLOCKER")
                               /\ e.details.result = JStr("FAIL"))
    IN  JArr([n \in 1..Len(failed) |-> failed[n].details.gate_id])

C8_BlockedOutcome ==
    /\ ret.ok
    /\ ret.outcome = [status |-> "BLOCKED", bundle_path |-> None,
                      bundle_sha256 |-> None, block_reason |-> Some(ret.decision)]
    /\ state = "FAILED"

C8_IsExportBlocked(e) ==
    /\ e.event_type = "EXPORT_BLOCKED"
    /\ e.details.block_reason = JStr(ret.decision)
    /\ e.details.failed_gate_ids = C8_FailedGateIds

\* As stated: EXPORT_BLOCKED is the last line of the log.
C8_LastEventIsExportBlocked ==
    (ret.op = "export_run" /\ ret.decision \notin {"Ok", "not_evaluated"}) =>
        /\ C8_BlockedOutcome
        /\ C8_IsExportBlocked(lines[Len(lines)])

\* C8 as the code has it: EXPORT_BLOCKED, carrying the reason and the failed
\* gate ids, is followed by RUN_STATE_CHANGED(EVALUATING -> FAILED), which is the
\* last line of the log.
C8_ExportBlockedThenFailed ==
    (ret.op = "export_run" /\ ret.decision \notin {"Ok", "not_evaluated"}) =>
        /\ C8_BlockedOutcome
        /\ Len(ExportAppended) >= 2
        /\ C8_IsExportBlocked(lines[Len(lines) - 1])
        /\ IsStateChange(lines[Len(lines)], "EVALUATING", "FAILED")

\* STRICT with NAME_ONLY pinning and every gate passing.
C8_Witness ==
    /\ ExportReturned("BLOCKED")
    /\ ret.decision = "INSUFFICIENT_PINNING"
    /\ ret.gate_inputs.policy_mode = "STRICT"
    /\ ret.gate_inputs.blocker_gate_failures = << >>

(***************************************************************************)
(* C9  In an audit log written through RunManager, by one RunManager or    *)
(* by several created one after another on the same log, every             *)
(* RUN_STATE_CHANGED of a run records a legal edge and its from_state is   *)
(* the to_state of the RUN_STATE_CHANGED of that run before it.            *)
(***************************************************************************)
C9_StateChangesFormAPath ==
    LET changes == SelectSeq(lines, LAMBDA e : e.event_type = "RUN_STATE_CHANGED"
                                                /\ e.run_id = "r1")
    IN  \A n \in 1..Len(changes) :
            /\ valid_transition(changes[n].details.from_state.s,
                                changes[n].details.to_state.s)
            /\ n > 1 => changes[n].details.from_state = changes[n - 1].details.to_state

(***************************************************************************)
(* validator/mod.rs: check_audit_chain on the lines of audit_log.ndjson.   *)
(* A line of the file is the compact JSON of the event append finalized;   *)
(* serde_json::from_str gives back the object with the same members.       *)
(***************************************************************************)
RequiredAuditKeys ==
    {"ts_utc", "event_type", "run_id", "vault_id", "actor", "details",
     "prev_event_hash", "event_hash"}

\* fail(check_id, format!(".. at line {} ..", idx + 1))
fail_at_line(text, line) ==
    [check_id |-> "CHK.AUDIT.REQUIRED_KEYS_AND_CHAIN", severity |-> "BLOCKER",
     result |-> "FAIL", message |-> text, line |-> line]

\* The body of the loop with the line number taken as the index of enumerate().
check_audit_line_index_as_line(v, idx, prev) ==
    IF \E k \in RequiredAuditKeys : k \notin DOMAIN v
    THEN fail_at_line("missing key", idx)
    ELSE IF v.prev_event_hash # prev
    THEN fail_at_line("prev_event_hash mismatch", idx)
    ELSE IF ~to_canonical_bytes([v EXCEPT !.event_hash = ZERO_HASH_64]).ok
    THEN fail_at_line("canonicalize error", idx)
    ELSE IF Sha256Hex(to_canonical_bytes([v EXCEPT !.event_hash = ZERO_HASH_64]).bytes)
              # v.event_hash
    THEN fail_at_line("event_hash mismatch", idx)
    ELSE pass("CHK.AUDIT.REQUIRED_KEYS_AND_CHAIN")

\* The body of the loop of check_audit_chain for the line at index idx of
\* s.lines().enumerate(): the first failing test, or pass for this line.
check_audit_line(v, idx, prev) ==
    IF \E k \in RequiredAuditKeys : k \notin DOMAIN v
    THEN fail_at_line("missing key", idx + 1)
    ELSE IF v.prev_event_hash # prev
    THEN fail_at_line("prev_event_hash mismatch", idx + 1)
    ELSE IF ~to_canonical_bytes([v EXCEPT !.event_hash = ZERO_HASH_64]).ok
    THEN fail_at_line("canonicalize error", idx + 1)
    ELSE IF Sha256Hex(to_canonical_bytes([v EXCEPT !.event_hash = ZERO_HASH_64]).bytes)
              # v.event_hash
    THEN fail_at_line("event_hash mismatch", idx + 1)
    ELSE pass("CHK.AUDIT.REQUIRED_KEYS_AND_CHAIN")

\* The loop of check_audit_chain from index idx on, prev being the stored hash
\* of the line before.
RECURSIVE check_audit_chain_from(_, _, _)
check_audit_chain_from(file_lines, idx, prev) ==
    IF idx >= Len(file_lines) THEN pass("CHK.AUDIT.REQUIRED_KEYS_AND_CHAIN")
    ELSE IF check_audit_line(file_lines[idx + 1], idx, prev).result # "PASS"
    THEN check_audit_line(file_lines[idx + 1], idx, prev)
    ELSE check_audit_chain_from(file_lines, idx + 1, file_lines[idx + 1].event_hash)

check_audit_chain(file_lines) == check_audit_chain_from(file_lines, 0, ZERO_HASH_64)

\* The values a prev_event_hash of the file is altered to.
AlteredHashes ==
    { ZERO_HASH_64, EmptyString, [hex |-> "altered"] }
    \cup { lines[n].event_hash : n \in 1..Len(lines) }

\* The file as it is, or with the prev_event_hash of one line altered.
AlteredLogs ==
    { [line |-> 0, file_lines |-> lines] }
    \cup UNION { { [line |-> i,
                     file_lines |-> [lines EXCEPT ![i].prev_event_hash = h]] :
                       h \in {x \in AlteredHashes : x # lines[i].prev_event_hash} } :
                   i \in 1..Len(lines) }

\* The validator reads a copy of the log; the log itself stays as it is.
BundleValidator_check_audit_chain ==
    /\ fileExists
    /\ \E copy \in AlteredLogs :
          ret' = [op |-> "check_audit_chain", ok |-> TRUE, altered_line |-> copy.line,
                  result |-> check_audit_chain(copy.file_lines)]
    /\ UNCHANGED <<fileExists, lines, audit, state, fs, calls, managers, runs, vault>>

NextAuditValidated == NextAudit \/ BundleValidator_check_audit_chain

SpecAuditValidated == InitAudit /\ [][NextAuditValidated]_vars

(***************************************************************************)
(* C11  Every log produced by AuditLog.append calls passes the validator's *)
(* AUDIT.REQUIRED_KEYS_AND_CHAIN check, and the same log with the          *)
(* prev_event_hash of line i (i >= 2) altered fails the check with a       *)
(* message naming line i.                                                  *)
(***************************************************************************)
C11_WriterAndValidatorAgree ==
    ret.op = "check_audit_chain" =>
        /\ ret.altered_line = 0 => ret.result.result = "PASS"
        /\ ret.altered_line >= 2 =>
              /\ ret.result.result = "FAIL"
              /\ ret.result.line = ret.altered_line

\* The check failed at line 3 of a three-line log whose third prev_event_hash
\* was altered.
C11_Witness ==
    /\ ret.op = "check_audit_chain"
    /\ Len(lines) = 3
    /\ ret.altered_line = 3
    /\ ret.result.result = "FAIL"

\* A log of three appended lines passed the check unaltered.
C11_WitnessPass ==
    /\ ret.op = "check_audit_chain"
    /\ Len(lines) = 3
    /\ ret.altered_line = 0
    /\ ret.result.result = "PASS"

(***************************************************************************)
(* C12  At every return from export_run (COMPLETED, BLOCKED, FAILED, or an *)
(* error raised by any step) the preflight directory and the preflight zip *)
(* created for that run no longer exist.                                   *)
(***************************************************************************)
C12_PreflightGoneAtEveryReturn ==
    (ret.op = "export_run" /\ ret.state_before = "READY") =>
        /\ fs["preflight_root"].kind = "absent"
        /\ fs["preflight_zip"].kind = "absent"

(***************************************************************************)
(* C13  A run can be moved to CANCELLED from any state, and a caller can   *)
(* cancel an export between its phases: the final packaging starts only    *)
(* from a state in which the preflight evaluation has returned to the      *)
(* caller with the run in EVALUATING, where the caller may move the run to *)
(* CANCELLED instead; on the cancelled path the preflight directory and    *)
(* zip are deleted and no final archive is produced.                       *)
(***************************************************************************)
C13_CallerInControlBetweenPhases ==
    [][ (ret'.op = "export_run" /\ "build_dir" \in ret'.steps) =>
            /\ ret.op = "export_run"
            /\ ret.decision = "Ok"
            /\ state = "EVALUATING"
            /\ fs["preflight_root"].kind = "absent"
            /\ fs["preflight_zip"].kind = "absent"
      ]_vars

(***************************************************************************)
(* C14  During export_run nothing is created at the caller's bundle_dir or *)
(* bundle_zip until the final archive has been completely written: when    *)
(* export_run returns, either both paths are absent or bundle_zip is the   *)
(* complete archive; on the blocked path and on every error before final   *)
(* packaging neither path is created.                                      *)
(***************************************************************************)
C14_NothingAtTargetBeforeArchiveComplete ==
    (ret.op = "export_run" /\ ret.state_before = "READY") =>
        /\ \/ fs["bundle_dir"].kind = "absent" /\ fs["bundle_zip"].kind = "absent"
           \/ fs["bundle_zip"].kind = "zip"
        /\ ret.steps = {} =>
              fs["bundle_dir"].kind = "absent" /\ fs["bundle_zip"].kind = "absent"

(***************************************************************************)
(* Two export_run executions side by side, each on its own RunManager,     *)
(* audit log and bundle targets.  What they share is std::env::temp_dir(): *)
(* the preflight paths are {run_id}_preflight_bundle and                   *)
(* {run_id}_preflight_bundle.zip under it.  In this specification `fs` is  *)
(* the temp dir, keyed by <<run_id, path>>, and runs[p].c is the context   *)
(* of run p with its own log, state and targets.                           *)
(***************************************************************************)
RunNames == {"A", "B"}

ConcurrentRunIds == {"r1", "r2"}

ConcurrentInputs ==
    { [traits |-> {}], [traits |-> {"claim_without_citation"}],
      [traits |-> {"artifact_hashes_mismatch"}] }

ConcurrentRequest(run_id) ==
    [ run_id |-> run_id, policy_mode |-> "STRICT", network_mode |-> "OFFLINE",
      proof_level |-> "OFFLINE_STRICT", pinning_level |-> "CRYPTO_PINNED",
      requested_by |-> "user" ]

TempDirEmpty ==
    [ path \in ConcurrentRunIds \X {"preflight_root", "preflight_zip"} |-> Absent ]

\* The context of a run with the preflight paths of its run_id as the temp dir
\* holds them now.
on_temp_dir(run, temp_dir) ==
    [run.c EXCEPT !.fs = [@ EXCEPT
        !["preflight_root"] = temp_dir[<<run.req.run_id, "preflight_root">>],
        !["preflight_zip"] = temp_dir[<<run.req.run_id, "preflight_zip">>]]]

\* The temp dir after a step of a run left context c.
temp_dir_after(temp_dir, run, c) ==
    [temp_dir EXCEPT
        ![<<run.req.run_id, "preflight_root">>] = c.fs["preflight_root"],
        ![<<run.req.run_id, "preflight_zip">>] = c.fs["preflight_zip"]]

\* A run moves on to the next position, or returns when `?` carries an error.
run_continues(run, c, next_pc) ==
    IF c.err # "none"
    THEN [run EXCEPT !.c = c, !.pc = "done",
                     !.returned = [ok |-> FALSE, err |-> c.err, outcome |-> None]]
    ELSE [run EXCEPT !.c = c, !.pc = next_pc]

RunStep(p, at_pc, c, next_pc) ==
    /\ runs[p].pc = at_pc
    /\ runs' = [runs EXCEPT ![p] = run_continues(@, c, next_pc)]
    /\ fs' = temp_dir_after(fs, runs[p], c)
    /\ ret' = [op |-> "export_run_step", ok |-> c.err = "none"]
    /\ UNCHANGED <<fileExists, lines, audit, state, calls, managers, vault>>

\* Lines 67-95 of export_run.
Run_request(p) ==
    RunStep(p, "request",
            export_run_request(on_temp_dir(runs[p], fs), runs[p].req), "remove")

\* Lines 101-106: if exists, remove_dir_all and remove_file.
Run_remove_preflight(p) ==
    RunStep(p, "remove", remove_preflight(on_temp_dir(runs[p], fs)), "build_dir")

\* Line 107: EvidenceBundleBuilder::build_dir(&preflight_root, bundle_inputs)?
run_build_dir(c, inputs) ==
    LET built(d) == [c EXCEPT !.fs = d.fs, !.err = d.err]
    IN  built(build_dir(c.fs, "preflight_root", inputs, FALSE))

Run_build_dir(p) ==
    RunStep(p, "build_dir",
            run_build_dir(on_temp_dir(runs[p], fs), runs[p].inputs), "build_zip")

\* Line 108: build_zip(&preflight_root, &preflight_zip)?  WalkDir fails on a
\* root that is not there, before out_zip is created.
run_build_zip(c) ==
    IF c.fs["preflight_root"].kind # "dir" THEN [c EXCEPT !.err = "Io"]
    ELSE LET built(z) == [c EXCEPT !.fs = z.fs, !.err = z.err]
         IN  built(build_zip(c.fs, "preflight_root", "preflight_zip", FALSE))

Run_build_zip(p) ==
    RunStep(p, "build_zip", run_build_zip(on_temp_dir(runs[p], fs)), "run_gates")

\* Lines 110-111: run_all_for_bundle(&preflight_zip, ..)?  File::open fails on
\* an archive that is not there.
run_run_gates(c, req) ==
    IF c.fs["preflight_zip"].kind # "zip" THEN [c EXCEPT !.err = "Io"]
    ELSE run_gates(c, req, "none")

Run_run_gates(p) ==
    /\ runs[p].pc = "run_gates"
    /\ \E c \in {run_run_gates(on_temp_dir(runs[p], fs), runs[p].req)} :
          /\ runs' = [runs EXCEPT ![p] =
                         [run_continues(@, c, "finish") EXCEPT !.gated_on =
                             IF c.err = "none" THEN Some(c.fs["preflight_zip"].content)
                             ELSE None]]
          /\ ret' = [op |-> "export_run_step", ok |-> c.err = "none"]
    /\ UNCHANGED <<fileExists, lines, audit, state, fs, calls, managers, vault>>

\* Lines 112-299: from the EVAL_GATE_RESULT events to the return.
run_finish(c, req, inputs) ==
    export_branch(decide(emit_eval(c, req), req), req, inputs, "none")

Run_finish(p) ==
    /\ runs[p].pc = "finish"
    /\ \E r \in {run_finish(on_temp_dir(runs[p], fs), runs[p].req, runs[p].inputs)} :
          /\ runs' = [runs EXCEPT ![p] =
                         [@ EXCEPT !.c = r.c, !.pc = "done",
                                   !.returned =
                                       [ok |-> r.ok, err |-> r.err,
                                        outcome |-> IF r.ok THEN r.outcome ELSE None]]]
          /\ fs' = temp_dir_after(fs, runs[p], r.c)
          /\ ret' = [op |-> "export_run_step", ok |-> r.ok]
    /\ UNCHANGED <<fileExists, lines, audit, state, calls, managers, vault>>

NewRun(run_id, inputs) ==
    [ pc |-> "request", req |-> ConcurrentRequest(run_id), inputs |-> inputs,
      c |-> Context(<< >>, ZERO_HASH_64, "READY", NoPaths),
      gated_on |-> None, returned |-> None ]

InitConcurrent ==
    /\ fileExists = FALSE
    /\ lines = << >>
    /\ audit = NoHandle
    /\ state = "READY"
    /\ calls = 0
    /\ managers = 0
    /\ ret = [op |-> "none", ok |-> TRUE]
    /\ vault = NoVault
    /\ fs = TempDirEmpty
    /\ \E run_id \in ConcurrentRunIds, a \in ConcurrentInputs, b \in ConcurrentInputs :
          runs = [p \in RunNames |->
                     IF p = "A" THEN NewRun("r1", a) ELSE NewRun(run_id, b)]

NextConcurrent ==
    \E p \in RunNames :
        \/ Run_request(p)
        \/ Run_remove_preflight(p)
        \/ Run_build_dir(p)
        \/ Run_build_zip(p)
        \/ Run_run_gates(p)
        \/ Run_finish(p)

SpecConcurrent == InitConcurrent /\ [][NextConcurrent]_vars

\* What export_run returns for the request and inputs of a run that has the
\* temp dir to itself.
RunAlone(run) ==
    LET r == export_run(Context(<< >>, ZERO_HASH_64, "READY", NoPaths),
                        run.req, run.inputs, "none")
    IN  [ok |-> r.ok, err |-> r.err, outcome |-> IF r.ok THEN r.outcome ELSE None]

(***************************************************************************)
(* C15  Two export_run executions on distinct vaults do not interfere,     *)
(* also when both requests carry the same run_id: in every interleaving a  *)
(* run that has returned evaluated its gates on an archive built from its  *)
(* own inputs and returned what it returns when it runs alone.             *)
(***************************************************************************)
C15_ConcurrentRunsDoNotInterfere ==
    \A p \in DOMAIN runs :
        runs[p].pc = "done" =>
            /\ runs[p].gated_on = Some(runs[p].inputs)
            /\ runs[p].returned = RunAlone(runs[p])

(***************************************************************************)
(* storage/vault.rs and storage/crypto.rs.  A byte string is Plain(b) or   *)
(* the JSON of an EncryptedBlob, EncryptedBlob(dek, bytes): what           *)
(* encrypt_bytes makes of `bytes` under `dek`.  DEKs are numbered in the   *)
(* order generate_dek_32 hands them out.                                   *)
(***************************************************************************)
MaxDeks == 3

BlobIds == {"b1", "b2"}

Plaintexts == {"alpha", "beta"}

Plain(b) == [plain |-> b]

EncryptedBlob(dek, bytes) == [ciphertext_under |-> dek, of |-> bytes]

Ok(v) == [ok |-> TRUE, err |-> "none", value |-> v]
Err(e) == [ok |-> FALSE, err |-> e, value |-> None]

\* serde_json::from_slice::<EncryptedBlob>(&bytes)? then decrypt_bytes(&enc, dek)
decrypt_bytes(bytes, dek) ==
    IF "ciphertext_under" \notin DOMAIN bytes THEN Err("Serde")
    ELSE IF bytes.ciphertext_under # dek THEN Err("PolicyBlocked")
    ELSE Ok(bytes.of)

\* What write_blob and write_sqlite_bytes put in the file.
stored_bytes(encryption_at_rest, dek, plaintext) ==
    IF encryption_at_rest THEN EncryptedBlob(dek, plaintext) ELSE plaintext

\* read_blob and read_sqlite_bytes on a file (None when the path is not there).
read_bytes(encryption_at_rest, dek, file) ==
    IF file = None THEN Err("Io")
    ELSE IF encryption_at_rest THEN decrypt_bytes(file.some, dek)
    ELSE Ok(file.some)

\* VaultStorage::create: the directories, vault_config.json, key_state.json with
\* the first DEK wrapped, and the handle.  `written` is the history of what the
\* callers wrote last; `rotation_failed` tells that a rotate_dek returned Err.
VaultCreated(encryption_at_rest) ==
    [ created |-> TRUE, encryption_at_rest |-> encryption_at_rest,
      key_state |-> [key_id |-> 1, wrapped_dek |-> 1],
      db |-> None, blobs |-> [id \in BlobIds |-> None],
      handle |-> [dek |-> 1, key_state |-> [key_id |-> 1, wrapped_dek |-> 1]],
      deks |-> 1,
      written |-> [db |-> None, blobs |-> [id \in BlobIds |-> None]],
      rotation_failed |-> FALSE ]

\* VaultStorage::open: the handle made of key_state.json.
open(v) == [v EXCEPT !.handle = [dek |-> v.key_state.wrapped_dek,
                                 key_state |-> v.key_state]]

read_blob(v, blob_id) == read_bytes(v.encryption_at_rest, v.handle.dek, v.blobs[blob_id])

read_sqlite_bytes(v) == read_bytes(v.encryption_at_rest, v.handle.dek, v.db)

\* The database rewrite of rotate_dek encrypting only when the vault encrypts at rest.
rotate_sqlite_honouring_config(v, new_dek) ==
    LET rewritten(current) ==
            IF ~current.ok THEN [v |-> v, err |-> current.err]
            ELSE [v |-> [v EXCEPT !.db =
                            Some(stored_bytes(v.encryption_at_rest, new_dek,
                                              current.value))],
                  err |-> "none"]
    IN  rewritten(read_sqlite_bytes(v))

\* rotate_dek, lines 137-145: the database file, when it exists, is read with
\* read_sqlite_bytes and written back encrypted under new_dek.
rotate_sqlite(v, new_dek) ==
    LET rewritten(current) ==
            IF ~current.ok THEN [v |-> v, err |-> current.err]
            ELSE [v |-> [v EXCEPT !.db = Some(EncryptedBlob(new_dek, current.value))],
                  err |-> "none"]
    IN  rewritten(read_sqlite_bytes(v))

\* rotate_dek, lines 147-170: one blob file is read, decrypted under old_dek
\* when the vault encrypts at rest, and written back.
rotate_blob(v, blob_id, old_dek, new_dek) ==
    LET rewritten(pt) ==
            IF ~pt.ok THEN [v |-> v, err |-> pt.err]
            ELSE [v |-> [v EXCEPT !.blobs[blob_id] =
                            Some(stored_bytes(v.encryption_at_rest, new_dek, pt.value))],
                  err |-> "none"]
    IN  rewritten(read_bytes(v.encryption_at_rest, old_dek, v.blobs[blob_id]))

\* The files rotate_dek rewrites, in order: the database, then the blobs as
\* read_dir lists them.
rotate_targets(v, dir_order) ==
    (IF v.db # None THEN << "sqlite" >> ELSE << >>)
        \o SelectSeq(dir_order, LAMBDA id : v.blobs[id] # None)

\* The rewrites of rotate_dek; `writes_left` is the number of file writes that
\* go through before an I/O error or an interruption (-1: all of them).
RECURSIVE rotate_files(_, _, _, _, _)
rotate_files(v, targets, old_dek, new_dek, writes_left) ==
    IF targets = << >> THEN [v |-> v, err |-> "none", writes_left |-> writes_left]
    ELSE IF writes_left = 0 THEN [v |-> v, err |-> "Io", writes_left |-> 0]
    ELSE LET next(r) ==
                 IF r.err # "none" THEN [v |-> r.v, err |-> r.err, writes_left |-> 0]
                 ELSE rotate_files(r.v, Tail(targets), old_dek, new_dek,
                                   IF writes_left > 0 THEN writes_left - 1 ELSE -1)
         IN  next(IF Head(targets) = "sqlite" THEN rotate_sqlite(v, new_dek)
                  ELSE rotate_blob(v, Head(targets), old_dek, new_dek))

\* rotate_dek, lines 172-191: self.key_state is assigned, key_state.json is
\* written, and then self.dek is assigned.
rotate_commit(r, new_dek) ==
    IF r.err # "none" THEN [v |-> [r.v EXCEPT !.rotation_failed = TRUE], err |-> r.err]
    ELSE LET new_state == [key_id |-> new_dek, wrapped_dek |-> new_dek]
         IN  IF r.writes_left = 0
             THEN [v |-> [r.v EXCEPT !.handle.key_state = new_state,
                                     !.rotation_failed = TRUE],
                   err |-> "Io"]
             ELSE [v |-> [r.v EXCEPT !.handle = [dek |-> new_dek, key_state |-> new_state],
                                     !.key_state = new_state],
                   err |-> "none"]

\* VaultStorage::rotate_dek
rotate_dek(v, dir_order, writes_left) ==
    LET new_dek == v.deks + 1
    IN  rotate_commit(rotate_files([v EXCEPT !.deks = new_dek],
                                   rotate_targets(v, dir_order),
                                   v.handle.dek, new_dek, writes_left),
                      new_dek)

DirOrders == { << "b1", "b2" >>, << "b2", "b1" >> }

VaultStorage_write_blob ==
    /\ vault.created
    /\ \E blob_id \in BlobIds, b \in Plaintexts :
          /\ vault' = [vault EXCEPT
                 !.blobs[blob_id] = Some(stored_bytes(vault.encryption_at_rest,
                                                      vault.handle.dek, Plain(b))),
                 !.written.blobs[blob_id] = Some(Plain(b))]
          /\ ret' = [op |-> "write_blob", ok |-> TRUE]
    /\ UNCHANGED <<fileExists, lines, audit, state, fs, calls, managers, runs>>

VaultStorage_read_blob ==
    /\ vault.created
    /\ \E blob_id \in BlobIds :
          ret' = [op |-> "read_blob", blob_id |-> blob_id,
                  ok |-> read_blob(vault, blob_id).ok,
                  returned |-> read_blob(vault, blob_id)]
    /\ UNCHANGED <<fileExists, lines, audit, state, fs, calls, managers, runs, vault>>

VaultStorage_write_sqlite_bytes ==
    /\ vault.created
    /\ \E b \in Plaintexts :
          /\ vault' = [vault EXCEPT
                 !.db = Some(stored_bytes(vault.encryption_at_rest,
                                          vault.handle.dek, Plain(b))),
                 !.written.db = Some(Plain(b))]
          /\ ret' = [op |-> "write_sqlite_bytes", ok |-> TRUE]
    /\ UNCHANGED <<fileExists, lines, audit, state, fs, calls, managers, runs>>

VaultStorage_read_sqlite_bytes ==
    /\ vault.created
    /\ ret' = [op |-> "read_sqlite_bytes", ok |-> read_sqlite_bytes(vault).ok,
               returned |-> read_sqlite_bytes(vault)]
    /\ UNCHANGED <<fileExists, lines, audit, state, fs, calls, managers, runs, vault>>

VaultStorage_rotate_dek ==
    /\ vault.created
    /\ vault.deks < MaxDeks
    /\ \E dir_order \in DirOrders, writes_left \in -1..3 :
       \E r \in {rotate_dek(vault, dir_order, writes_left)} :
          /\ writes_left >= 0 => r.err # "none"
          /\ vault' = r.v
          /\ ret' = [op |-> "rotate_dek", ok |-> r.err = "none", err |-> r.err]
    /\ UNCHANGED <<fileExists, lines, audit, state, fs, calls, managers, runs>>

\* The handle is dropped and the vault is opened again.
VaultStorage_open ==
    /\ vault.created
    /\ vault' = open(vault)
    /\ ret' = [op |-> "open", ok |-> TRUE]
    /\ UNCHANGED <<fileExists, lines, audit, state, fs, calls, managers, runs>>

InitVault ==
    /\ fileExists = FALSE
    /\ lines = << >>
    /\ audit = NoHandle
    /\ state = "READY"
    /\ fs = NoPaths
    /\ calls = 0
    /\ managers = 0
    /\ ret = [op |-> "none", ok |-> TRUE]
    /\ runs = NoRuns
    /\ \E encryption_at_rest \in BOOLEAN : vault = VaultCreated(encryption_at_rest)

NextVault ==
    \/ VaultStorage_write_blob
    \/ VaultStorage_read_blob
    \/ VaultStorage_write_sqlite_bytes
    \/ VaultStorage_read_sqlite_bytes
    \/ VaultStorage_rotate_dek
    \/ VaultStorage_open

SpecVault == InitVault /\ [][NextVault]_vars

\* Every blob and the database bytes that were written read back, through the
\* handle of v, as what was written last.
AllReadable(v) ==
    /\ \A id \in BlobIds :
          v.written.blobs[id] # None => read_blob(v, id) = Ok(v.written.blobs[id].some)
    /\ v.written.db # None => read_sqlite_bytes(v) = Ok(v.written.db.some)

(***************************************************************************)
(* C16  rotate_dek keeps old data readable until the rotation commits:     *)
(* when a rotate_dek on a vault whose data is readable fails before the    *)
(* new key state is persisted to key_state.json, every blob and the        *)
(* database bytes still decrypt to what was written, through the same      *)
(* handle and through a handle made by open(root).                         *)
(***************************************************************************)
C16_FailedRotationKeepsDataReadable ==
    [][ (ret'.op = "rotate_dek" /\ ~ret'.ok /\ AllReadable(vault)
            /\ vault'.key_state = vault.key_state) =>
            /\ AllReadable(vault')
            /\ AllReadable(open(vault'))
      ]_vars

MaxAllowlist == 2

Paths == {"/", "/a", "/ab", "/b"}

path_chars(path) ==
    CASE path = "/" -> << "/" >>
      [] path = "/a" -> << "/", "a" >>
      [] path = "/ab" -> << "/", "a", "b" >>
      [] path = "/b" -> << "/", "b" >>

\* str::starts_with
starts_with(path, prefix) ==
    /\ Len(path_chars(prefix)) <= Len(path_chars(path))
    /\ SubSeq(path_chars(path), 1, Len(path_chars(prefix))) = path_chars(prefix)

Urls ==
    { u \in [ scheme : {"https", "http", "file"},
              host : {Some("example.com"), Some("other.org"), None},
              port : {None, Some(8443)},
              path : Paths ] :
        /\ (u.scheme = "file") <=> (u.host = None)
        /\ u.scheme = "file" => u.port = None }

\* Url::port_or_known_default
port_or_known_default(url) ==
    IF url.port # None THEN url.port
    ELSE CASE url.scheme = "https" -> Some(443)
           [] url.scheme = "http" -> Some(80)
           [] OTHER -> None

\* domain_to_ascii(h) followed by to_ascii_lowercase, on the hosts of Urls.
domain_to_ascii_lowercase(h) ==
    CASE h = "example.com" -> "example.com"
      [] h = "other.org" -> "other.org"

AllowlistEntry(scheme, host, port, path_prefix) ==
    [scheme |-> scheme, host |-> host, port |-> port, path_prefix |-> path_prefix]

\* Canonical entries.
AllowlistEntries ==
    { AllowlistEntry("https", "example.com", 443, None),
      AllowlistEntry("https", "example.com", 443, Some("/a")),
      AllowlistEntry("http", "example.com", 80, None),
      AllowlistEntry("https", "other.org", 8443, Some("/ab")) }

\* AllowlistEntry::matches_url without the path prefix.
matches_url_any_path(e, url) ==
    IF url.host = None THEN FALSE
    ELSE LET port == IF port_or_known_default(url) # None
                     THEN port_or_known_default(url).some
                     ELSE IF url.scheme = "https" THEN 443 ELSE 80
         IN  ~ \/ url.scheme # e.scheme
               \/ domain_to_ascii_lowercase(url.host.some) # e.host
               \/ port # e.port

\* AllowlistEntry::matches_url
matches_url(e, url) ==
    IF url.host = None THEN FALSE
    ELSE LET port == IF port_or_known_default(url) # None
                     THEN port_or_known_default(url).some
                     ELSE IF url.scheme = "https" THEN 443 ELSE 80
         IN  IF \/ url.scheme # e.scheme
                \/ domain_to_ascii_lowercase(url.host.some) # e.host
                \/ port # e.port
             THEN FALSE
             ELSE IF e.path_prefix # None THEN starts_with(url.path, e.path_prefix.some)
             ELSE TRUE

Allowlists ==
    UNION { [1..n -> AllowlistEntries] : n \in 0..MaxAllowlist }

EgressPolicy ==
    [ network_mode : NetworkMode, allowlist : Allowlists ]

Allowed(allowlist_rule_id) == [allowed |-> TRUE, allowlist_rule_id |-> allowlist_rule_id]
Blocked(reason) == [allowed |-> FALSE, reason |-> reason]

\* The decimal digits of n.
RECURSIVE decimal_digits(_)
decimal_digits(n) ==
    IF n < 10 THEN << n >> ELSE decimal_digits(n \div 10) \o << n % 10 >>

\* format!("ALW{:04}", idx): the digits of idx, padded with zeros on the left to
\* a width of four.
format_rule_id(idx) ==
    LET padded(d) == IF Len(d) >= 4 THEN d ELSE [i \in 1..(4 - Len(d)) |-> 0] \o d
    IN  [prefix |-> "ALW", digits |-> padded(decimal_digits(idx))]

\* The scan for (idx, e) in allowlist.iter().enumerate(), from position n (idx n - 1).
RECURSIVE decide_from(_, _, _)
decide_from(allowlist, n, url) ==
    IF n > Len(allowlist) THEN Blocked("NOT_ALLOWLISTED")
    ELSE IF matches_url(allowlist[n], url) THEN Allowed(format_rule_id(n - 1))
    ELSE decide_from(allowlist, n + 1, url)

\* EgressClient::decide
decide_egress(policy, url) ==
    IF policy.network_mode = "OFFLINE" THEN Blocked("OFFLINE_MODE")
    ELSE decide_from(policy.allowlist, 1, url)

\* decide reads the policy and changes nothing: one call is followed by another
\* operation before decide is called again.
Decide(policies, urls) ==
    /\ ret.op # "decide"
    /\ \E policy \in policies, url \in urls :
          ret' = [op |-> "decide", ok |-> TRUE, policy |-> policy, url |-> url,
                  decision |-> decide_egress(policy, url)]
    /\ UNCHANGED <<fileExists, lines, audit, state, fs, calls, managers, runs, vault>>

EgressClient_decide == Decide(EgressPolicy, Urls)

\* decide alone, on any policy and URL.
SpecDecide == Init /\ [][EgressClient_decide]_vars

(***************************************************************************)
(* C18  decide returns Blocked(OFFLINE_MODE) for every URL when the        *)
(* network mode is OFFLINE, whatever the allowlist holds; under            *)
(* ONLINE_ALLOWLISTED it returns Allowed with the rule id ALW followed by  *)
(* the four-digit zero-padded index of the first entry whose scheme, host, *)
(* port-or-default and path prefix match the URL, and                      *)
(* Blocked(NOT_ALLOWLISTED) when no entry matches.                         *)
(***************************************************************************)
C18_EntryMatches(e, url) ==
    /\ url.host # None
    /\ e.scheme = url.scheme
    /\ e.host = url.host.some
    /\ e.port = (IF url.port # None THEN url.port.some
                 ELSE IF url.scheme = "https" THEN 443 ELSE 80)
    /\ e.path_prefix # None =>
          \E n \in 0..Len(path_chars(url.path)) :
              SubSeq(path_chars(url.path), 1, n) = path_chars(e.path_prefix.some)

C18_FourDigits(idx) ==
    << (idx \div 1000) % 10, (idx \div 100) % 10, (idx \div 10) % 10, idx % 10 >>

C18_DecideFollowsModeAndFirstMatch ==
    ret.op = "decide" =>
        LET hits == {n \in 1..Len(ret.policy.allowlist) :
                        C18_EntryMatches(ret.policy.allowlist[n], ret.url)}
        IN  /\ ret.policy.network_mode = "OFFLINE" =>
                  ret.decision = Blocked("OFFLINE_MODE")
            /\ (ret.policy.network_mode = "ONLINE_ALLOWLISTED" /\ hits = {}) =>
                  ret.decision = Blocked("NOT_ALLOWLISTED")
            /\ (ret.policy.network_mode = "ONLINE_ALLOWLISTED" /\ hits # {}) =>
                  \E n \in hits :
                      /\ \A m \in hits : n <= m
                      /\ ret.decision =
                             Allowed([prefix |-> "ALW", digits |-> C18_FourDigits(n - 1)])

\* Two entries match the URL and the rule id is that of the first.
C18_Witness ==
    /\ ret.op = "decide"
    /\ ret.policy.network_mode = "ONLINE_ALLOWLISTED"
    /\ Len(ret.policy.allowlist) = 2
    /\ ret.policy.allowlist[1] # ret.policy.allowlist[2]
    /\ matches_url(ret.policy.allowlist[1], ret.url)
    /\ matches_url(ret.policy.allowlist[2], ret.url)
    /\ ret.decision = Allowed([prefix |-> "ALW", digits |-> << 0, 0, 0, 0 >>])

\* The URL matches the second entry only.
C18_WitnessSecondEntry ==
    /\ ret.op = "decide"
    /\ ret.policy.network_mode = "ONLINE_ALLOWLISTED"
    /\ Len(ret.policy.allowlist) = 2
    /\ ~matches_url(ret.policy.allowlist[1], ret.url)
    /\ ret.decision = Allowed([prefix |-> "ALW", digits |-> << 0, 0, 0, 1 >>])

(***************************************************************************)
(* EgressClient on an open audit log: decide and record_attempt are two    *)
(* public operations, called by the client's owner in any order and with   *)
(* any decision value.                                                     *)
(***************************************************************************)
JObj(fields) == [obj |-> fields]

\* The "destination" object of record_attempt.
destination(url) ==
    JObj([ scheme |-> JStr(url.scheme),
           host |-> JStr(IF url.host # None THEN url.host.some ELSE ""),
           port |-> JInt(IF port_or_known_default(url) # None
                         THEN port_or_known_default(url).some ELSE 0),
           path |-> JStr(url.path) ])

\* EgressClient::record_attempt
record_attempt(log, run_id, url, decision, request_bytes) ==
    IF decision.allowed
    THEN append(log, AuditEvent("EGRESS_REQUEST_ALLOWED", run_id, "system",
                    [destination |-> destination(url),
                     allowlist_rule_id |-> JStr(decision.allowlist_rule_id),
                     request_hash_sha256 |-> JStr(Sha256Hex(request_bytes))]))
    ELSE append(log, AuditEvent("EGRESS_REQUEST_BLOCKED", run_id, "system",
                    [destination |-> destination(url),
                     block_reason |-> JStr(decision.reason),
                     request_hash_sha256 |-> JStr(Sha256Hex(request_bytes))]))

\* The policies, URLs, decisions and request bytes of the attempts.
AttemptPolicies ==
    { [network_mode |-> "OFFLINE", allowlist |-> << >>],
      [network_mode |-> "ONLINE_ALLOWLISTED",
       allowlist |-> << AllowlistEntry("https", "example.com", 443, Some("/a")) >>] }

AttemptUrls ==
    { u \in Urls : u.scheme = "https" /\ u.host = Some("example.com")
                      /\ u.port = None /\ u.path \in {"/a", "/b"} }

EgressDecisions ==
    { Allowed(format_rule_id(0)), Blocked("OFFLINE_MODE"), Blocked("NOT_ALLOWLISTED") }

RequestBytes == {"GET /a", "GET /b"}

EgressClient_decide_attempt == Decide(AttemptPolicies, AttemptUrls)

EgressClient_record_attempt ==
    /\ audit.open
    /\ calls < MaxCalls
    /\ \E policy \in AttemptPolicies, url \in AttemptUrls,
          decision \in EgressDecisions, request_bytes \in RequestBytes :
       \E r \in {record_attempt([lines |-> lines, last_hash |-> audit.last_hash],
                                "r1", url, decision, request_bytes)} :
          /\ lines' = r.log.lines
          /\ audit' = [audit EXCEPT !.last_hash = r.log.last_hash]
          /\ ret' = [op |-> "record_attempt", ok |-> r.ok, policy |-> policy,
                     url |-> url, decision |-> decision,
                     request_bytes |-> request_bytes, lines_before |-> Len(lines)]
    /\ calls' = calls + 1
    /\ UNCHANGED <<fileExists, state, fs, managers, runs, vault>>

NextEgress == EgressClient_decide_attempt \/ EgressClient_record_attempt

SpecEgress == Init /\ [][NextEgress]_vars

\* The event records the decision for the URL with the hash of the request bytes.
C19_Records(e, url, decision, request_bytes) ==
    /\ e.details.destination = destination(url)
    /\ e.details.request_hash_sha256 = JStr(Sha256Hex(request_bytes))
    /\ IF decision.allowed
       THEN /\ e.event_type = "EGRESS_REQUEST_ALLOWED"
            /\ e.details.allowlist_rule_id = JStr(decision.allowlist_rule_id)
       ELSE /\ e.event_type = "EGRESS_REQUEST_BLOCKED"
            /\ e.details.block_reason = JStr(decision.reason)

(***************************************************************************)
(* C19  Every egress attempt leaves exactly one audit event carrying the   *)
(* SHA-256 of the request bytes, EGRESS_REQUEST_ALLOWED with the rule id   *)
(* or EGRESS_REQUEST_BLOCKED with the block reason: no URL is decided      *)
(* without such an event being appended, and the event recorded for a URL  *)
(* never disagrees with what decide returns for it.                        *)
(***************************************************************************)
C19_EveryAttemptLeavesOneAgreeingEvent ==
    /\ ret.op = "decide" =>
          /\ Len(lines) >= 1
          /\ \E request_bytes \in RequestBytes :
                C19_Records(lines[Len(lines)], ret.url, ret.decision, request_bytes)
    /\ ret.op = "record_attempt" =>
          /\ ret.ok
          /\ Len(lines) = ret.lines_before + 1
          /\ C19_Records(lines[Len(lines)], ret.url,
                         decide_egress(ret.policy, ret.url), ret.request_bytes)

(***************************************************************************)
(* C20  Export gate monotonicity: for every combination of the other       *)
(* inputs, if evaluate_export_gate blocks under DRAFT_ONLY it blocks under *)
(* BALANCED, and if it blocks under BALANCED it blocks under STRICT.       *)
(***************************************************************************)
C20_Stricter(policy_mode) ==
    IF policy_mode = "DRAFT_ONLY" THEN "BALANCED" ELSE "STRICT"

C20_StricterModeNeverUnblocks ==
    (ret.op = "evaluate_export_gate" /\ ret.result # "Ok") =>
        evaluate_export_gate(
            [ret.given EXCEPT !.policy_mode = C20_Stricter(ret.given.policy_mode)])
          # "Ok"

\* Blocked under BALANCED for the redactions, and under STRICT for the citations.
C20_Witness ==
    /\ ret.op = "evaluate_export_gate"
    /\ ret.given.policy_mode = "BALANCED"
    /\ ret.result = "MISSING_REDACTIONS"
    /\ evaluate_export_gate([ret.given EXCEPT !.policy_mode = "STRICT"])
          = "MISSING_CITATIONS"

(***************************************************************************)
(* C27  Whenever export_run returns Ok, the returned status and the run    *)
(* state agree: the status is COMPLETED iff the state is COMPLETED, and    *)
(* then bundle_path and bundle_sha256 are present and block_reason is      *)
(* absent; the status BLOCKED or FAILED implies that the state is FAILED,  *)
(* block_reason is present and bundle_path and bundle_sha256 are absent.   *)
(***************************************************************************)
C27_StatusAgreesWithState ==
    (ret.op = "export_run" /\ ret.ok) =>
        /\ ret.outcome.status \in {"COMPLETED", "BLOCKED", "FAILED"}
        /\ (ret.outcome.status = "COMPLETED") <=> (state = "COMPLETED")
        /\ ret.outcome.status = "COMPLETED" =>
              /\ ret.outcome.bundle_path # None
              /\ ret.outcome.bundle_sha256 # None
              /\ ret.outcome.block_reason = None
        /\ ret.outcome.status \in {"BLOCKED", "FAILED"} =>
              /\ state = "FAILED"
              /\ ret.outcome.block_reason # None
              /\ ret.outcome.bundle_path = None
              /\ ret.outcome.bundle_sha256 = None

\* Ok(BLOCKED) with the reason of the gate, on a run that is FAILED.
C27_Witness ==
    /\ ExportReturned("BLOCKED")
    /\ state = "FAILED"
    /\ ret.outcome.block_reason = Some("OFFLINE_PROOF_INSUFFICIENT")

\* Ok(COMPLETED) with the digest of the archive at bundle_zip.
C27_WitnessCompleted ==
    /\ ExportReturned("COMPLETED")
    /\ state = "COMPLETED"
    /\ ret.outcome.bundle_sha256 = Some(Sha256Hex(fs["bundle_zip"]))

(***************************************************************************)
(* C28  export_run called on a RunManager whose state is neither READY nor *)
(* EXECUTING returns PolicyBlocked and leaves the run state unchanged, but *)
(* has appended exactly one EXPORT_REQUESTED event to the audit log and    *)
(* appends nothing after it.                                               *)
(***************************************************************************)
C28_RejectedCallLeavesOneEvent ==
    [][ (ret'.op = "export_run" /\ state \notin {"READY", "EXECUTING"}) =>
            /\ ~ret'.ok
            /\ ret'.err = "PolicyBlocked"
            /\ state' = state
            /\ Len(lines') = Len(lines) + 1
            /\ SubSeq(lines', 1, Len(lines)) = lines
            /\ lines'[Len(lines')].event_type = "EXPORT_REQUESTED"
            /\ fs' = fs
      ]_vars

\* A second call on a run that ended COMPLETED.
C28_Witness ==
    /\ ret.op = "export_run"
    /\ ret.state_before = "COMPLETED"
    /\ ~ret.ok
    /\ state = "COMPLETED"
    /\ Len(lines) = ret.lines_before + 1
    /\ lines[Len(lines)].event_type = "EXPORT_REQUESTED"

(***************************************************************************)
(* C29  When export_run returns the status FAILED because the final        *)
(* archive did not validate, the archive and the bundle directory that     *)
(* failed validation are left in place at bundle_zip and bundle_dir:       *)
(* export_run never deletes or rolls back what it wrote under the caller's *)
(* export target.                                                          *)
(***************************************************************************)
C29_FailedExportLeavesBundleInPlace ==
    [][ ret'.op = "export_run" =>
            /\ (ret'.ok /\ ret'.outcome.status = "FAILED") =>
                  /\ fs'["bundle_dir"].kind = "dir"
                  /\ fs'["bundle_zip"] =
                         [kind |-> "zip", content |-> fs'["bundle_dir"].content]
                  /\ ret'.overall = "FAIL"
            /\ \A path \in {"bundle_dir", "bundle_zip"} :
                  fs[path].kind # "absent" => fs'[path].kind # "absent"
      ]_vars

\* FAILED was returned and the archive that did not validate is at bundle_zip.
C29_Witness ==
    /\ ExportReturned("FAILED")
    /\ state = "FAILED"
    /\ fs["bundle_dir"].kind = "dir"
    /\ fs["bundle_zip"].kind = "zip"
    /\ ret.outcome.block_reason = Some("BUNDLE_VALIDATION_FAILED")

(***************************************************************************)
(* C30  For a vault with encryption_at_rest disabled, rotate_dek still     *)
(* rewrites the database file as an encrypted envelope under the new DEK   *)
(* while it leaves the blobs in plaintext: after the rotation read_blob    *)
(* still returns the written bytes, and read_sqlite_bytes returns the      *)
(* envelope bytes rather than the bytes given to write_sqlite_bytes.       *)
(***************************************************************************)
C30_PlainVaultRotationEncryptsDatabaseOnly ==
    [][ (ret'.op = "rotate_dek" /\ ret'.ok /\ ~vault.encryption_at_rest) =>
            /\ vault'.blobs = vault.blobs
            /\ \A id \in BlobIds :
                  vault.written.blobs[id] # None =>
                      read_blob(vault', id) = Ok(vault.written.blobs[id].some)
            /\ vault.db # None =>
                  /\ vault'.db = Some(EncryptedBlob(vault'.handle.dek, vault.db.some))
                  /\ read_sqlite_bytes(vault') = Ok(vault'.db.some)
                  /\ read_sqlite_bytes(vault') # Ok(vault.written.db.some)
      ]_vars

\* A plaintext vault after a rotation: the blob reads back, the database does not.
C30_Witness ==
    /\ ret.op = "rotate_dek" /\ ret.ok
    /\ ~vault.encryption_at_rest
    /\ vault.written.blobs["b1"] = Some(Plain("alpha"))
    /\ read_blob(vault, "b1") = Ok(Plain("alpha"))
    /\ vault.written.db = Some(Plain("beta"))
    /\ read_sqlite_bytes(vault) = Ok(EncryptedBlob(vault.handle.dek, Plain("beta")))

(***************************************************************************)
(* The validator alone, on the archive of any bundle with up to two        *)
(* traits, or on a path that holds no readable archive.                    *)
(***************************************************************************)
ValidatedFiles ==
    { [kind |-> "zip", content |-> [traits |-> t]] :
          t \in {x \in SUBSET Traits : Cardinality(x) <= 2} }
        \cup { Absent, [kind |-> "partial_zip"] }

\* validate_zip is a function of the archive and the policy: one call is followed
\* by another operation before it is called again.
BundleValidator_validate_zip ==
    /\ ret.op # "validate_zip"
    /\ \E file \in ValidatedFiles, policy \in PolicyMode :
          ret' = IF file.kind = "absent"
                 THEN [op |-> "validate_zip", ok |-> FALSE, err |-> "Io",
                       file |-> file, policy |-> policy]
                 ELSE IF file.kind # "zip"
                 THEN [op |-> "validate_zip", ok |-> FALSE, err |-> "Zip",
                       file |-> file, policy |-> policy]
                 ELSE [op |-> "validate_zip", ok |-> TRUE, err |-> "none",
                       file |-> file, policy |-> policy,
                       summary |-> validate_zip(file, policy)]
    /\ UNCHANGED <<fileExists, lines, audit, state, fs, calls, managers, runs, vault>>

SpecValidate == InitAudit /\ [][BundleValidator_validate_zip]_vars

(***************************************************************************)
(* C22  validate_zip returns overall PASS iff no check of severity BLOCKER *)
(* has a result other than PASS, and a failing check is reported as a row  *)
(* with result FAIL in the returned summary, never as an error return.     *)
(***************************************************************************)
C22_Row(check_id) ==
    LET n == CHOOSE n \in 1..Len(ret.summary.checks) :
                 ret.summary.checks[n].check_id = check_id
    IN  ret.summary.checks[n]

C22_OverallIffNoBlockerFailed ==
    (ret.op = "validate_zip" /\ ret.file.kind = "zip") =>
        /\ ret.ok
        /\ (ret.summary.overall = "PASS") <=>
              (\A n \in 1..Len(ret.summary.checks) :
                  ret.summary.checks[n].severity = "BLOCKER" =>
                      ret.summary.checks[n].result = "PASS")
        /\ ret.summary.overall \in {"PASS", "FAIL"}
        /\ \A n \in 1..Len(ret.summary.checks) :
              ret.summary.checks[n].result \in {"PASS", "FAIL"}
        /\ "artifact_hashes_mismatch" \in ret.file.content.traits =>
              C22_Row("CHK.ARTIFACT_HASHES.VERIFY").result = "FAIL"
        /\ "audit_chain_broken" \in ret.file.content.traits =>
              C22_Row("CHK.AUDIT.REQUIRED_KEYS_AND_CHAIN").result = "FAIL"
        /\ "eval_report_invalid" \in ret.file.content.traits =>
              C22_Row("CHK.EVAL.REPORT_AND_GATES").result = "FAIL"

\* Two checks failed; both are rows of an Ok summary whose overall is FAIL.
C22_Witness ==
    /\ ret.op = "validate_zip" /\ ret.ok
    /\ ret.file.content.traits = {"artifact_hashes_mismatch", "audit_chain_broken"}
    /\ ret.summary.overall = "FAIL"
    /\ C22_Row("CHK.ARTIFACT_HASHES.VERIFY").result = "FAIL"
    /\ C22_Row("CHK.AUDIT.REQUIRED_KEYS_AND_CHAIN").result = "FAIL"
    /\ C22_Row("CHK.BUNDLE.REQUIRED_FILES").result = "PASS"


(***************************************************************************)
(* The OFFLINE_ENFORCEMENT.ALLOWLIST_MATCH_V1 analyzer on the text of an   *)
(* audit_log.ndjson.  A line of the text is blank, fails to parse as JSON, *)
(* or is a JSON value of which the analyzer reads event_type,              *)
(* details.block_reason and details.allowlist_rule_id; a field that is     *)
(* absent or not a string reads as None.                                   *)
(***************************************************************************)
MaxNdjsonLines == 3

allowed_block_reasons == {"OFFLINE_MODE", "NOT_ALLOWLISTED", "UI_DIRECT_EGRESS_BLOCKED"}

\* Every reason decide returns on the policies and URLs of SpecDecide.
DecideBlockReasons ==
    { decide_egress(policy, url).reason :
          <<policy, url>> \in { pu \in EgressPolicy \X Urls :
                                   ~decide_egress(pu[1], pu[2]).allowed } }

JsonLine(event_type, block_reason, allowlist_rule_id) ==
    [kind |-> "json", event_type |-> event_type, block_reason |-> block_reason,
     allowlist_rule_id |-> allowlist_rule_id]

NdjsonLines ==
    { [kind |-> "blank"], [kind |-> "invalid"],
      JsonLine("ALLOWLIST_UPDATED", None, None),
      JsonLine("RUN_CREATED", None, None) }
        \cup { JsonLine("EGRESS_REQUEST_BLOCKED", r, None) :
                  r \in {None, Some(""), Some("TIMEOUT")}
                            \cup { Some(s) : s \in allowed_block_reasons \cup DecideBlockReasons } }
        \cup { JsonLine("EGRESS_REQUEST_ALLOWED", None, r) :
                  r \in {None, Some(""), Some("ALW0000")} }

Ndjson == UNION { [1..n -> NdjsonLines] : n \in 0..MaxNdjsonLines }

\* x.and_then(|x| x.as_str()).unwrap_or_default()
unwrap_or_default(field) == IF field = None THEN "" ELSE field.some

\* The analyzer with the rule id of an allowed request left unread.
evaluate_offline_allowlist_ignoring_rule_id(ndjson) ==
    LET invalid == {n \in 1..Len(ndjson) : ndjson[n].kind = "invalid"}
        events == {n \in 1..Len(ndjson) : ndjson[n].kind = "json"}
        seen_allowlist_updated ==
            \E n \in events : ndjson[n].event_type = "ALLOWLIST_UPDATED"
        blocked == {n \in events : ndjson[n].event_type = "EGRESS_REQUEST_BLOCKED"}
        blocked_invalid_reasons ==
            { unwrap_or_default(ndjson[n].block_reason) : n \in
                  {m \in blocked :
                      unwrap_or_default(ndjson[m].block_reason) \notin allowed_block_reasons} }
    IN  IF invalid # {}
        THEN [result |-> "FAIL", message |-> "invalid audit_log.ndjson at line",
              line |-> CHOOSE n \in invalid : \A m \in invalid : n <= m]
        ELSE IF ~seen_allowlist_updated
        THEN [result |-> "FAIL", message |-> "missing ALLOWLIST_UPDATED event"]
        ELSE IF blocked = {}
        THEN [result |-> "FAIL", message |-> "no EGRESS_REQUEST_BLOCKED events recorded"]
        ELSE IF blocked_invalid_reasons # {}
        THEN [result |-> "FAIL", message |-> "invalid blocked reasons",
              reasons |-> blocked_invalid_reasons]
        ELSE [result |-> "PASS", message |-> "ok"]

\* The loop returns at the first line that fails to parse; the four checks
\* follow the loop in this order.
evaluate_offline_allowlist_from_ndjson(ndjson) ==
    LET invalid == {n \in 1..Len(ndjson) : ndjson[n].kind = "invalid"}
        events == {n \in 1..Len(ndjson) : ndjson[n].kind = "json"}
        seen_allowlist_updated ==
            \E n \in events : ndjson[n].event_type = "ALLOWLIST_UPDATED"
        blocked == {n \in events : ndjson[n].event_type = "EGRESS_REQUEST_BLOCKED"}
        blocked_invalid_reasons ==
            { unwrap_or_default(ndjson[n].block_reason) : n \in
                  {m \in blocked :
                      unwrap_or_default(ndjson[m].block_reason) \notin allowed_block_reasons} }
        allowed_missing_rule ==
            {n \in events :
                /\ ndjson[n].event_type = "EGRESS_REQUEST_ALLOWED"
                /\ unwrap_or_default(ndjson[n].allowlist_rule_id) = ""}
    IN  IF invalid # {}
        THEN [result |-> "FAIL", message |-> "invalid audit_log.ndjson at line",
              line |-> CHOOSE n \in invalid : \A m \in invalid : n <= m]
        ELSE IF ~seen_allowlist_updated
        THEN [result |-> "FAIL", message |-> "missing ALLOWLIST_UPDATED event"]
        ELSE IF blocked = {}
        THEN [result |-> "FAIL", message |-> "no EGRESS_REQUEST_BLOCKED events recorded"]
        ELSE IF blocked_invalid_reasons # {}
        THEN [result |-> "FAIL", message |-> "invalid blocked reasons",
              reasons |-> blocked_invalid_reasons]
        ELSE IF allowed_missing_rule # {}
        THEN [result |-> "FAIL",
              message |-> "EGRESS_REQUEST_ALLOWED events missing allowlist_rule_id",
              count |-> Cardinality(allowed_missing_rule)]
        ELSE [result |-> "PASS", message |-> "ok"]

\* The analyzer reads the text and changes nothing.
EvalRunner_evaluate_offline_allowlist ==
    /\ ret.op # "evaluate_offline_allowlist"
    /\ \E ndjson \in Ndjson :
          ret' = [op |-> "evaluate_offline_allowlist", ok |-> TRUE, ndjson |-> ndjson,
                  gate |-> evaluate_offline_allowlist_from_ndjson(ndjson)]
    /\ UNCHANGED <<fileExists, lines, audit, state, fs, calls, managers, runs, vault>>

SpecAnalyze == InitAudit /\ [][EvalRunner_evaluate_offline_allowlist]_vars

C26_Events(ndjson, event_type) ==
    {n \in 1..Len(ndjson) :
        ndjson[n].kind = "json" /\ ndjson[n].event_type = event_type}

\* What the claim requires of the events of a log.
C26_EventsAcceptable(ndjson) ==
    /\ C26_Events(ndjson, "ALLOWLIST_UPDATED") # {}
    /\ C26_Events(ndjson, "EGRESS_REQUEST_BLOCKED") # {}
    /\ \A n \in C26_Events(ndjson, "EGRESS_REQUEST_BLOCKED") :
          /\ ndjson[n].block_reason # None
          /\ ndjson[n].block_reason.some \in allowed_block_reasons
    /\ \A n \in C26_Events(ndjson, "EGRESS_REQUEST_ALLOWED") :
          /\ ndjson[n].allowlist_rule_id # None
          /\ ndjson[n].allowlist_rule_id.some # ""

(***************************************************************************)
(* C26  The OFFLINE_ENFORCEMENT.ALLOWLIST_MATCH_V1 analyzer passes an      *)
(* audit log iff every non-blank line of the log parses as JSON, the log   *)
(* contains at least one ALLOWLIST_UPDATED event and at least one          *)
(* EGRESS_REQUEST_BLOCKED event, every EGRESS_REQUEST_BLOCKED event has a  *)
(* recognized block_reason, and every EGRESS_REQUEST_ALLOWED event has a   *)
(* non-empty allowlist_rule_id; every block reason that decide can return  *)
(* is a recognized reason.                                                 *)
(***************************************************************************)
C26_AnalyzerPassesIffParsedAndAcceptable ==
    /\ DecideBlockReasons \subseteq allowed_block_reasons
    /\ ret.op = "evaluate_offline_allowlist" =>
          (ret.gate.result = "PASS" <=>
              /\ \A n \in 1..Len(ret.ndjson) : ret.ndjson[n].kind # "invalid"
              /\ C26_EventsAcceptable(ret.ndjson))

\* A log with both reasons of decide, an allowed request and a blank line passes.
C26_Witness ==
    /\ ret.op = "evaluate_offline_allowlist"
    /\ ret.gate.result = "PASS"
    /\ DecideBlockReasons = {"OFFLINE_MODE", "NOT_ALLOWLISTED"}
    /\ Len(ret.ndjson) = 3
    /\ ret.ndjson[1] = JsonLine("ALLOWLIST_UPDATED", None, None)
    /\ ret.ndjson[2] = JsonLine("EGRESS_REQUEST_BLOCKED", Some("NOT_ALLOWLISTED"), None)
    /\ ret.ndjson[3] = JsonLine("EGRESS_REQUEST_ALLOWED", None, Some("ALW0000"))

\* C26 as stated, without the condition on the lines: the analyzer passes a
\* log iff its events are acceptable.
C26_AnalyzerPassesIffAcceptable ==
    ret.op = "evaluate_offline_allowlist" =>
        (ret.gate.result = "PASS" <=> C26_EventsAcceptable(ret.ndjson))


(***************************************************************************)
(* evidenceos/workflow.rs: generate_evidenceos_artifacts, and the bundle   *)
(* that build_dir and build_zip make of its deliverables.  A deliverable   *)
(* path exports/{pack_id}/deliverables/{name} is the pair of its pack_id   *)
(* and name.                                                               *)
(***************************************************************************)
MaxClaims == 2

DeliverablePath(pack_id, name) == [pack_id |-> pack_id, name |-> name]

\* controls_for_capabilities: the whole library for no capability, otherwise
\* the controls of the capabilities named.
controls_for_capabilities(enabled_capabilities) ==
    LET default_control_library ==
            {"Access Control", "Auditability", "Data Protection",
             "Network Governance", "Model Governance", "Traceability"}
    IN  IF enabled_capabilities = {} THEN default_control_library
        ELSE default_control_library \cap enabled_capabilities

NarrativeClaimInput ==
    [claim_id : {"", "C0001"}, text : {"", "text"}, has_citations : BOOLEAN]

EvidenceOsRequest ==
    [ pack_id : {"", "evidenceos", "redlineos"}, run_id : {"", "r1"},
      policy_mode : PolicyMode,
      enabled_capabilities : {{}, {"Auditability"}, {"Unknown"}},
      narrative_claims : UNION { [1..n -> NarrativeClaimInput] : n \in 0..MaxClaims } ]

\* The first claim the validation loop rejects, 0 when it rejects none.
first_rejected_claim(req) ==
    LET bad == {n \in 1..Len(req.narrative_claims) :
                   \/ req.narrative_claims[n].claim_id = ""
                   \/ req.narrative_claims[n].text = ""
                   \/ /\ req.policy_mode = "STRICT"
                      /\ ~req.narrative_claims[n].has_citations}
    IN  IF bad = {} THEN 0 ELSE CHOOSE n \in bad : \A m \in bad : n <= m

\* generate_evidenceos_artifacts: the checks of the request in the order of the
\* code, then the five deliverables of the returned vector.
generate_evidenceos_artifacts(req) ==
    IF req.pack_id = "" \/ req.run_id = "" THEN Err("EvidenceOsValidation")
    ELSE IF controls_for_capabilities(req.enabled_capabilities) = {}
    THEN Err("EvidenceOsValidation")
    ELSE IF first_rejected_claim(req) # 0
    THEN LET claim == req.narrative_claims[first_rejected_claim(req)]
         IN  IF claim.claim_id = "" \/ claim.text = ""
             THEN Err("EvidenceOsValidation") ELSE Err("PolicyBlocked")
    ELSE Ok([ deliverables |->
                  << DeliverablePath(req.pack_id, "evidence_index.csv"),
                     DeliverablePath(req.pack_id, "evidence_index.md"),
                     DeliverablePath(req.pack_id, "missing_evidence_checklist.md"),
                     DeliverablePath(req.pack_id, "evidence_narrative.md"),
                     DeliverablePath(req.pack_id, "evidence_mapping_review.json") >>,
              mapping_review_schema_version |-> "EVIDENCE_MAPPING_REVIEW_V1",
              claims_without_citation |->
                  \E n \in 1..Len(req.narrative_claims) :
                      ~req.narrative_claims[n].has_citations ])

\* The paths evaluate_evidenceos_outputs_gate looks up with zip.by_name.
evidenceos_required ==
    { DeliverablePath("evidenceos", name) :
          name \in {"evidence_index.csv", "evidence_index.md", "evidence_index.pdf",
                    "evidence_narrative.md", "missing_evidence_checklist.md"} }

\* What the gate analyzers find in the archive of a bundle of pack_id built
\* with these artifacts as its deliverables and citations map, every other
\* input being in order.
evidenceos_bundle_content(pack_id, artifacts) ==
    LET entries == {artifacts.deliverables[n] : n \in 1..Len(artifacts.deliverables)}
    IN  [traits |->
            (IF pack_id # "evidenceos" THEN {"pack_not_evidenceos"} ELSE {})
            \cup (IF evidenceos_required \subseteq entries THEN {}
                  ELSE {"evidenceos_deliverable_missing"})
            \cup (IF /\ DeliverablePath("evidenceos", "evidence_mapping_review.json")
                            \in entries
                     /\ artifacts.mapping_review_schema_version
                            = "EVIDENCE_MAPPING_REVIEW_V1"
                  THEN {} ELSE {"evidenceos_mapping_review_missing"})
            \cup (IF artifacts.claims_without_citation
                  THEN {"claim_without_citation"} ELSE {})]

\* The test's sequence: generate the artifacts, build the bundle and its
\* archive, run every gate on the archive under a policy.
EvidenceOs_generate_and_evaluate ==
    /\ ret.op # "evidenceos_bundle"
    /\ \E req \in EvidenceOsRequest, policy \in PolicyMode :
          \E r \in {generate_evidenceos_artifacts(req)} :
              ret' = IF ~r.ok
                     THEN [op |-> "evidenceos_bundle", ok |-> FALSE, err |-> r.err,
                           req |-> req, policy |-> policy]
                     ELSE [op |-> "evidenceos_bundle", ok |-> TRUE, err |-> "none",
                           req |-> req, policy |-> policy,
                           deliverables |-> r.value.deliverables,
                           gates |-> run_all_for_bundle(
                               [kind |-> "zip",
                                content |-> evidenceos_bundle_content(req.pack_id, r.value)],
                               policy)]
    /\ UNCHANGED <<fileExists, lines, audit, state, fs, calls, managers, runs, vault>>

SpecEvidenceOs == InitAudit /\ [][EvidenceOs_generate_and_evaluate]_vars

C25_GateResult(gate_id) ==
    { ret.gates[n].result : n \in {m \in 1..Len(ret.gates) : ret.gates[m].gate_id = gate_id} }

(***************************************************************************)
(* C25  For a bundle of pack evidenceos whose deliverables are exactly     *)
(* those produced by generate_evidenceos_artifacts, run_all_for_bundle     *)
(* under STRICT reports EVIDENCEOS.OUTPUTS_PRESENT_V1 with result PASS and *)
(* EVIDENCEOS.MAPPING_REVIEW_PRESENT_V1 with result PASS.                  *)
(***************************************************************************)
C25_GeneratedBundlePassesEvidenceOsGates ==
    (/\ ret.op = "evidenceos_bundle" /\ ret.ok
     /\ ret.req.pack_id = "evidenceos" /\ ret.policy = "STRICT") =>
        /\ C25_GateResult("EVIDENCEOS.OUTPUTS_PRESENT_V1") = {"PASS"}
        /\ C25_GateResult("EVIDENCEOS.MAPPING_REVIEW_PRESENT_V1") = {"PASS"}

\* What holds instead: the mapping review gate passes and the outputs gate
\* fails for want of evidence_index.pdf.
C25_OutputsGateFailsForMissingPdf ==
    (/\ ret.op = "evidenceos_bundle" /\ ret.ok
     /\ ret.req.pack_id = "evidenceos" /\ ret.policy = "STRICT") =>
        /\ C25_GateResult("EVIDENCEOS.OUTPUTS_PRESENT_V1") = {"FAIL"}
        /\ C25_GateResult("EVIDENCEOS.MAPPING_REVIEW_PRESENT_V1") = {"PASS"}
        /\ DeliverablePath("evidenceos", "evidence_index.pdf") \in evidenceos_required
        /\ \A n \in 1..Len(ret.deliverables) :
              ret.deliverables[n].name # "evidence_index.pdf"


(***************************************************************************)
(* determinism/zip.rs: zip_dir_deterministic on a directory tree.  A path  *)
(* is the sequence of its components, a string the sequence of its bytes.  *)
(* WalkDir hands over the entries of the tree, each with its absolute      *)
(* path and the metadata the file system keeps for it, a directory before  *)
(* its contents and siblings in the order of the file system.              *)
(***************************************************************************)
MaxEntries == 3

\* The bytes of the component names in use.
component_bytes(name) ==
    CASE name = "a" -> << 97 >>
      [] name = "a.t" -> << 97, 46, 116 >>
      [] name = "b" -> << 98 >>

TreeNode(rel, kind, content) == [rel |-> rel, kind |-> kind, content |-> content]

TreeNodes ==
    { TreeNode(<< "a" >>, "dir", "") }
        \cup { TreeNode(rel, "file", content) :
                  rel \in { << "a.t" >>, << "b" >>, << "a", "b" >>, << "a", "a.t" >> },
                  content \in {"x", "y"} }

\* Directory trees: one node per relative path, every node inside a directory
\* of the tree.
Trees ==
    { t \in SUBSET TreeNodes :
          /\ Cardinality(t) <= MaxEntries
          /\ \A m, n \in t : m.rel = n.rel => m = n
          /\ \A n \in t : Len(n.rel) > 1 =>
                \E d \in t : d.kind = "dir" /\ d.rel = SubSeq(n.rel, 1, Len(n.rel) - 1) }

RootDirs == { << "tmp", "bundle_1" >>, << "tmp", "x", "bundle_2" >> }

\* mtime and mode of a node on disk, as the build that wrote it left them.
Metadata == [mtime : {1, 2}, mode : {420, 384}]

is_inside(n, d) ==
    /\ d.kind = "dir"
    /\ Len(n.rel) > Len(d.rel)
    /\ SubSeq(n.rel, 1, Len(d.rel)) = d.rel

\* The orders in which WalkDir can yield the nodes of a tree under root_dir:
\* depth first, a directory immediately followed by its contents.
Walks(tree, root_dir, metadata) ==
    { [n \in 1..Cardinality(tree) |->
          [path |-> root_dir \o order[n].rel, kind |-> order[n].kind,
           content |-> order[n].content, metadata |-> metadata]] :
        order \in { o \in [1..Cardinality(tree) -> tree] :
                      /\ \A i, j \in 1..Cardinality(tree) : o[i] = o[j] => i = j
                      /\ \A i, j \in 1..Cardinality(tree) :
                            is_inside(o[j], o[i]) =>
                                /\ i < j
                                /\ \A k \in (i + 1)..j : is_inside(o[k], o[i]) } }

\* p.strip_prefix(root_dir)
strip_prefix(path, root_dir) == SubSeq(path, Len(root_dir) + 1, Len(path))

\* rel.to_string_lossy(): the components joined by '/'.
RECURSIVE to_string_lossy(_)
to_string_lossy(rel) ==
    IF Len(rel) = 1 THEN component_bytes(rel[1])
    ELSE component_bytes(rel[1]) \o << 47 >> \o to_string_lossy(Tail(rel))

\* The name of an entry: the relative path, ending in '/' for a directory.
rel_s(rel, kind) ==
    IF kind = "dir" THEN to_string_lossy(rel) \o << 47 >> ELSE to_string_lossy(rel)

\* String::cmp: byte-wise lexicographic order.
RECURSIVE str_le(_, _)
str_le(a, b) ==
    IF a = << >> THEN TRUE
    ELSE IF b = << >> THEN FALSE
    ELSE IF a[1] # b[1] THEN a[1] < b[1]
    ELSE str_le(Tail(a), Tail(b))

\* The entries left in the order of the walk.
sort_by_rel_skipped(entries) == entries

\* entries.sort_by(|a, b| a.1.cmp(&b.1)), a stable sort.
RECURSIVE sort_by_rel(_)
sort_by_rel(entries) ==
    IF Len(entries) <= 1 THEN entries
    ELSE LET n == Len(entries)
             sorted == sort_by_rel(SubSeq(entries, 1, n - 1))
             e == entries[n]
             k == Cardinality({m \in 1..Len(sorted) : str_le(sorted[m].rel, e.rel)})
         IN  SubSeq(sorted, 1, k) \o <<e>> \o SubSeq(sorted, k + 1, Len(sorted))

\* The (abs_path, rel) pairs collected from the walk.
collect_entries(walk, root_dir) ==
    [n \in 1..Len(walk) |->
        [abs_path |-> walk[n].path,
         rel |-> rel_s(strip_prefix(walk[n].path, root_dir), walk[n].kind),
         content |-> walk[n].content]]

\* add_directory / start_file with the pinned options, then the bytes of the file.
zip_entry(e) ==
    IF e.rel[Len(e.rel)] = 47
    THEN [name |-> e.rel, last_modified_time |-> << 1980, 1, 1, 0, 0, 0 >>,
          compression |-> << "Deflated", 9 >>, unix_permissions |-> 493, data |-> ""]
    ELSE [name |-> e.rel, last_modified_time |-> << 1980, 1, 1, 0, 0, 0 >>,
          compression |-> << "Deflated", 9 >>, unix_permissions |-> 420,
          data |-> e.content]

\* zip_dir_deterministic on a walk that meets no I/O error: the archive written
\* to out_zip and the SHA-256 of its bytes.
zip_dir_deterministic(walk, root_dir) ==
    LET entries == sort_by_rel(collect_entries(walk, root_dir))
        archive == [entries |-> [n \in 1..Len(entries) |-> zip_entry(entries[n])],
                    comment |-> ""]
    IN  [archive |-> archive, sha256 |-> Sha256Hex(archive)]

\* Two copies of one tree, each in a directory of its own, written by builds
\* of their own and archived one after the other.
ZipDirTwice ==
    /\ ret.op # "zip_dir_twice"
    /\ \E tree \in Trees, root_1 \in RootDirs, root_2 \in RootDirs :
          \E metadata_1 \in Metadata, metadata_2 \in Metadata :
              \E walk_1 \in Walks(tree, root_1, metadata_1),
                 walk_2 \in Walks(tree, root_2, metadata_2) :
                  ret' = [op |-> "zip_dir_twice", ok |-> TRUE, tree |-> tree,
                          root_1 |-> root_1, walk_1 |-> walk_1,
                          zip_1 |-> zip_dir_deterministic(walk_1, root_1),
                          root_2 |-> root_2, walk_2 |-> walk_2,
                          zip_2 |-> zip_dir_deterministic(walk_2, root_2)]
    /\ UNCHANGED <<fileExists, lines, audit, state, fs, calls, managers, runs, vault>>

SpecZip == InitAudit /\ [][ZipDirTwice]_vars

\* The name a node of the tree has in the archive.
C21_Name(node) == rel_s(node.rel, node.kind)

(***************************************************************************)
(* C21  The archive is a function of the input tree only: two directory    *)
(* trees with the same relative paths and file contents yield              *)
(* byte-identical archives and the same returned SHA-256, whatever the     *)
(* directories' locations, the time of the build and the order in which    *)
(* the file system enumerates the entries; the archive has one entry per   *)
(* node of the tree, in ascending order of the '/'-joined relative path.   *)
(***************************************************************************)
C21_ArchiveIsFunctionOfTree ==
    ret.op = "zip_dir_twice" =>
        LET es == ret.zip_1.archive.entries
        IN  /\ ret.zip_1.archive = ret.zip_2.archive
            /\ ret.zip_1.sha256 = ret.zip_2.sha256
            /\ Len(es) = Cardinality(ret.tree)
            /\ \A node \in ret.tree :
                  \E n \in 1..Len(es) :
                      es[n].name = C21_Name(node) /\ es[n].data = node.content
            /\ \A n \in 1..(Len(es) - 1) :
                  str_le(es[n].name, es[n + 1].name) /\ es[n].name # es[n + 1].name

\* The two copies lie at different depths, were written at different times and
\* are enumerated in different orders, the first not in the order of the archive.
C21_Witness ==
    /\ ret.op = "zip_dir_twice"
    /\ Len(ret.walk_1) = 3
    /\ ret.root_1 # ret.root_2
    /\ ret.walk_1[1].metadata # ret.walk_2[1].metadata
    /\ ret.walk_1[1].path # ret.root_1 \o << "a.t" >>
    /\ strip_prefix(ret.walk_1[1].path, ret.root_1)
           # strip_prefix(ret.walk_2[1].path, ret.root_2)
    /\ ret.zip_1.archive.entries[1].name = << 97, 46, 116 >>
    /\ ret.zip_1.archive.entries[2].name = << 97, 47 >>
    /\ ret.zip_1.archive.entries[3].name = << 97, 47, 98 >>
    /\ ret.zip_1.sha256 = ret.zip_2.sha256


(***************************************************************************)
(* determinism/json_canonical.rs on serde_json values whose objects keep   *)
(* their members in the order of insertion: to_canonical_bytes is          *)
(* normalize_value followed by the compact serde_json::to_string, the      *)
(* output taken token by token.                                            *)
(***************************************************************************)
MaxArrayLen == 2

\* A serde_json::Map: members in insertion order, no key twice.
JMap(members) == [map |-> members]
Member(k, v) == [k |-> k, v |-> v]

JsonKeys == {"a", "b"}
JsonScalars == { JInt(1), JInt(2), JFloat("1.5"), JStr("1") }

\* Objects of at most two members with values from a set.
ObjectsOver(values) ==
    { JMap(<< >>) }
        \cup { JMap(<< Member(k, v) >>) : k \in JsonKeys, v \in values }
        \cup { JMap(<< Member(k[1], v), Member(k[2], w) >>) :
                  k \in { << "a", "b" >>, << "b", "a" >> }, v \in values, w \in values }

ArraysOver(values) ==
    { JArr(items) : items \in UNION { [1..n -> values] : n \in 0..MaxArrayLen } }

\* Scalars, arrays and objects of scalars, and objects one level deeper.
JsonValues ==
    JsonScalars \cup ArraysOver(JsonScalars) \cup ObjectsOver(JsonScalars)
        \cup ObjectsOver({ JInt(1), JFloat("1.5"), JArr(<< JInt(1), JInt(2) >>) }
                            \cup { JMap(<< Member(k[1], JInt(v)), Member(k[2], JInt(w)) >>) :
                                      k \in { << "a", "b" >>, << "b", "a" >> },
                                      v \in {1, 2}, w \in {1, 2} })

\* The members as inserted, without the rebuild in sorted order.
btree_order_skipped(members) == members

\* Iteration of the BTreeMap the members were inserted into: ascending keys.
RECURSIVE btree_order(_)
btree_order(members) ==
    IF Len(members) <= 1 THEN members
    ELSE LET n == Len(members)
             sorted == btree_order(SubSeq(members, 1, n - 1))
             e == members[n]
             k == Cardinality({m \in 1..Len(sorted) :
                      str_le(component_bytes(sorted[m].k), component_bytes(e.k))})
         IN  SubSeq(sorted, 1, k) \o <<e>> \o SubSeq(sorted, k + 1, Len(sorted))

\* normalize_value: Err on a number that is neither i64 nor u64, anywhere in
\* the value; objects rebuilt with their keys ascending.
RECURSIVE normalize_value(_)
normalize_value(v) ==
    IF "map" \in DOMAIN v
    THEN LET rs == [n \in 1..Len(v.map) |-> normalize_value(v.map[n].v)]
         IN  IF \E n \in 1..Len(rs) : ~rs[n].ok
             THEN Err("DeterminismViolationError")
             ELSE Ok(JMap(btree_order(
                     [n \in 1..Len(rs) |-> Member(v.map[n].k, rs[n].value)])))
    ELSE IF "arr" \in DOMAIN v
    THEN LET rs == [n \in 1..Len(v.arr) |-> normalize_value(v.arr[n])]
         IN  IF \E n \in 1..Len(rs) : ~rs[n].ok
             THEN Err("DeterminismViolationError")
             ELSE Ok(JArr([n \in 1..Len(rs) |-> rs[n].value]))
    ELSE IF "float" \in DOMAIN v THEN Err("DeterminismViolationError")
    ELSE Ok(v)

Token(text) == [tok |-> text]

\* serde_json::to_string: compact, members and items in the order of the value.
RECURSIVE to_string(_)
RECURSIVE to_string_members(_)
RECURSIVE to_string_items(_)
to_string(v) ==
    IF "map" \in DOMAIN v
    THEN << Token("{") >> \o to_string_members(v.map) \o << Token("}") >>
    ELSE IF "arr" \in DOMAIN v
    THEN << Token("[") >> \o to_string_items(v.arr) \o << Token("]") >>
    ELSE IF "s" \in DOMAIN v THEN << [tok |-> "string", s |-> v.s] >>
    ELSE IF "int" \in DOMAIN v THEN << [tok |-> "number", digits |-> v.int] >>
    ELSE << [tok |-> "number", decimal |-> v.float] >>

to_string_members(members) ==
    IF members = << >> THEN << >>
    ELSE << [tok |-> "string", s |-> members[1].k], Token(":") >>
             \o to_string(members[1].v)
             \o (IF Len(members) = 1 THEN << >>
                 ELSE << Token(",") >> \o to_string_members(Tail(members)))

to_string_items(items) ==
    IF items = << >> THEN << >>
    ELSE to_string(items[1])
             \o (IF Len(items) = 1 THEN << >>
                 ELSE << Token(",") >> \o to_string_items(Tail(items)))

\* to_canonical_bytes of a serde_json::Value.
to_canonical_bytes_value(value) ==
    LET normalized == normalize_value(value)
    IN  IF ~normalized.ok THEN normalized ELSE Ok(to_string(normalized.value))

\* to_canonical_bytes called on two values.
Canonicalize ==
    /\ ret.op # "to_canonical_bytes"
    /\ \E a \in JsonValues, b \in JsonValues :
          ret' = [op |-> "to_canonical_bytes", ok |-> TRUE, a |-> a, b |-> b,
                  ca |-> to_canonical_bytes_value(a), cb |-> to_canonical_bytes_value(b)]
    /\ UNCHANGED <<fileExists, lines, audit, state, fs, calls, managers, runs, vault>>

SpecCanonical == InitAudit /\ [][Canonicalize]_vars

\* Equality of JSON trees: objects by their keys, whatever the order of the
\* members; arrays item by item; scalars by kind and value.
RECURSIVE C23_StructurallyEqual(_, _)
C23_StructurallyEqual(a, b) ==
    IF "map" \in DOMAIN a
    THEN /\ "map" \in DOMAIN b
         /\ {a.map[n].k : n \in 1..Len(a.map)} = {b.map[n].k : n \in 1..Len(b.map)}
         /\ \A m \in 1..Len(a.map), n \in 1..Len(b.map) :
               a.map[m].k = b.map[n].k => C23_StructurallyEqual(a.map[m].v, b.map[n].v)
    ELSE IF "arr" \in DOMAIN a
    THEN /\ "arr" \in DOMAIN b
         /\ Len(a.arr) = Len(b.arr)
         /\ \A n \in 1..Len(a.arr) : C23_StructurallyEqual(a.arr[n], b.arr[n])
    ELSE a = b

RECURSIVE C23_HoldsNonInteger(_)
C23_HoldsNonInteger(v) ==
    IF "map" \in DOMAIN v THEN \E n \in 1..Len(v.map) : C23_HoldsNonInteger(v.map[n].v)
    ELSE IF "arr" \in DOMAIN v THEN \E n \in 1..Len(v.arr) : C23_HoldsNonInteger(v.arr[n])
    ELSE "float" \in DOMAIN v

(***************************************************************************)
(* C23  to_canonical_bytes returns the same bytes for two JSON values iff  *)
(* the values are structurally equal, the order of object keys ignored,    *)
(* and rejects any value that contains a non-integer number with a         *)
(* DeterminismViolation error, returning bytes for every other value.      *)
(***************************************************************************)
C23_SameBytesIffStructurallyEqual ==
    ret.op = "to_canonical_bytes" =>
        /\ (ret.ca.ok /\ ret.cb.ok) =>
              (ret.ca.value = ret.cb.value <=> C23_StructurallyEqual(ret.a, ret.b))
        /\ ret.ca.ok <=> ~C23_HoldsNonInteger(ret.a)
        /\ ~ret.ca.ok => ret.ca.err = "DeterminismViolationError"

\* The objects of the key-order test, their members in different orders at both
\* levels, give the same bytes.
C23_Witness ==
    /\ ret.op = "to_canonical_bytes"
    /\ ret.a = JMap(<< Member("b", JInt(1)),
                       Member("a", JMap(<< Member("b", JInt(2)), Member("a", JInt(1)) >>)) >>)
    /\ ret.b = JMap(<< Member("a", JMap(<< Member("a", JInt(1)), Member("b", JInt(2)) >>)),
                       Member("b", JInt(1)) >>)
    /\ ret.ca.ok /\ ret.ca.value = ret.cb.value

\* A float under a key of an object is rejected.
C23_WitnessRejected ==
    /\ ret.op = "to_canonical_bytes"
    /\ ret.a = JMap(<< Member("a", JInt(1)), Member("b", JFloat("1.5")) >>)
    /\ ~ret.ca.ok /\ ret.ca.err = "DeterminismViolationError"


(***************************************************************************)
(* redlineos, incidentos, financeos and healthcareos workflow.rs: the      *)
(* workflow state of a pack, held by its caller in the binding `state`.    *)
(* ingest returns a new value; transition takes self by value, so the      *)
(* binding is moved into the call and holds a value again only when the    *)
(* caller binds the Ok result.                                             *)
(***************************************************************************)
Packs == {"redlineos", "incidentos", "financeos", "healthcareos"}

WorkflowStage == {"Ingested", "Analyzed", "Reviewed", "Renderable", "ExportReady"}

\* A binding that holds no value: not yet assigned, or moved from.
Moved == [live |-> FALSE]

WorkflowState(pack, stage, input) ==
    [live |-> TRUE, pack |-> pack, stage |-> stage, input |-> input]

expected_schema_version(pack) ==
    CASE pack = "redlineos" -> "REDLINEOS_INPUT_V1"
      [] pack = "incidentos" -> "INCIDENTOS_INPUT_V1"
      [] pack = "financeos" -> "FINANCEOS_INPUT_V1"
      [] pack = "healthcareos" -> "HEALTHCAREOS_INPUT_V1"

\* The fields of a pack input that ingest looks at: the schema version, the
\* artifacts (consent artifacts for healthcareos) and, in `second`, whether the
\* retention profile of financeos or the transcript list of healthcareos is
\* non-empty.
PackInputs(pack) ==
    [ schema_version : {expected_schema_version(pack), "INVALID_V1"},
      artifacts : { << >>, << "a1" >>, << "a1", "a2" >> },
      second : BOOLEAN ]

pack_ingest(pack, input) ==
    IF input.schema_version # expected_schema_version(pack)
    THEN Err("InputSchemaError")
    ELSE IF input.artifacts = << >> THEN Err("ArtifactMissingError")
    ELSE IF pack = "healthcareos" /\ ~input.second THEN Err("ArtifactMissingError")
    ELSE IF pack = "financeos" /\ ~input.second THEN Err("PolicyViolationError")
    ELSE Ok(WorkflowState(pack, "Ingested", input))

\* The matches! of transition, the same in the four packs.
pack_transition_allowed(stage, next) ==
    << stage, next >> \in { << "Ingested", "Analyzed" >>, << "Analyzed", "Reviewed" >>,
                           << "Reviewed", "Renderable" >>, << "Renderable", "ExportReady" >> }

\* transition(self, next)
pack_transition(self, next) ==
    IF ~pack_transition_allowed(self.stage, next)
    THEN Err("WorkflowTransitionError")
    ELSE Ok(WorkflowState(self.pack, next, self.input))

\* let state = XWorkflowState::ingest(input), the binding left unassigned on Err.
PackWorkflow_ingest ==
    /\ ~state.live
    /\ \E pack \in Packs :
          \E input \in PackInputs(pack) :
              \E r \in {pack_ingest(pack, input)} :
                  /\ state' = IF r.ok THEN r.value ELSE state
                  /\ ret' = [op |-> "ingest", ok |-> r.ok, err |-> r.err, pack |-> pack]
    /\ UNCHANGED <<fileExists, lines, audit, fs, calls, managers, runs, vault>>

\* state.transition(next): the value of the binding is moved into the call; the
\* caller binds the new value on Ok, and on Err the value was dropped with the
\* call.
PackWorkflow_transition ==
    /\ state.live
    /\ \E next \in WorkflowStage :
          \E r \in {pack_transition(state, next)} :
              /\ state' = IF r.ok THEN r.value ELSE Moved
              /\ ret' = [op |-> "pack_transition", ok |-> r.ok, err |-> r.err,
                         pack |-> state.pack, from |-> state.stage, to |-> next]
    /\ UNCHANGED <<fileExists, lines, audit, fs, calls, managers, runs, vault>>

InitWorkflow ==
    /\ fileExists = FALSE
    /\ lines = << >>
    /\ audit = NoHandle
    /\ state = Moved
    /\ fs = NoPaths
    /\ calls = 0
    /\ managers = 0
    /\ ret = [op |-> "none", ok |-> TRUE]
    /\ runs = NoRuns
    /\ vault = NoVault

NextWorkflow == PackWorkflow_ingest \/ PackWorkflow_transition

SpecWorkflow == InitWorkflow /\ [][NextWorkflow]_vars

C24_NextStage(stage) ==
    CASE stage = "Ingested" -> "Analyzed"
      [] stage = "Analyzed" -> "Reviewed"
      [] stage = "Reviewed" -> "Renderable"
      [] stage = "Renderable" -> "ExportReady"
      [] OTHER -> "none"

(***************************************************************************)
(* C24  In each pack workflow transition succeeds only along               *)
(* Ingested -> Analyzed -> Reviewed -> Renderable -> ExportReady, one step *)
(* at a time; every skipped, backward or repeated stage and every          *)
(* transition out of ExportReady is rejected with an error that leaves the *)
(* workflow state unchanged.                                               *)
(***************************************************************************)
C24_RejectedTransitionLeavesStateUnchanged ==
    [][ (state.live /\ ret'.op = "pack_transition") =>
            IF ret'.to = C24_NextStage(state.stage)
            THEN ret'.ok /\ state' = [state EXCEPT !.stage = ret'.to]
            ELSE ~ret'.ok /\ ret'.err = "WorkflowTransitionError" /\ state' = state ]_vars

\* What holds of transition: it succeeds exactly along the chain, keeping pack
\* and input, and a rejected call leaves the caller with no state.
C24_TransitionFollowsChainAndConsumesState ==
    [][ (state.live /\ ret'.op = "pack_transition") =>
            IF ret'.to = C24_NextStage(state.stage)
            THEN ret'.ok /\ state' = [state EXCEPT !.stage = ret'.to]
            ELSE ~ret'.ok /\ ret'.err = "WorkflowTransitionError" /\ state' = Moved ]_vars

====
